---- MODULE Spec2Model ----
(***************************************************************************)
(* The workflow engine of the property-management integration platform    *)
(* (WorkflowManager): registration of workflow definitions and the        *)
(* execution of a workflow's steps with conditions, retries, backoff      *)
(* sleeps, the error handler and the lifecycle events; the cron bindings   *)
(* of scheduled workflows; the resolution of a step's parameter template; *)
(* the deduplication service (DeduplicationService.findMatches) with its  *)
(* result cache; and the rate limiter of the integrations (RateLimiter).  *)
(*                                                                         *)
(* A JavaScript string that the engine takes apart (an action name) is a  *)
(* sequence of tokens: a ".", a "{{", a "}}" or a non-empty piece of text  *)
(* that holds no dot and no brace.  An absent (undefined) string is "", an *)
(* absent number is 0.                                                      *)
(***************************************************************************)
EXTENDS Integers, Sequences, FiniteSets, TLC

VARIABLES
  workflows,         \* this.workflows: name -> stored definition
  executions,        \* every Execution object created so far, in creation order
  activeExecutions,  \* this.activeExecutions: the Execution objects it holds
  nextId,            \* the place in executions of the next Execution object
  registrations,     \* register() calls made so far
  rejected,          \* names for which execute() threw "Workflow not found"
  scheduledJobs,     \* this.scheduledJobs: name -> the cron task bound to it
  jobs,              \* every cron task cron.schedule created so far
  prepared,          \* executeStep preparing one step's parameters
  config,            \* DeduplicationService.config
  cache,             \* DeduplicationService.cache: hash -> entry
  store,             \* what the candidate store answers at this moment
  clock,             \* Date.now()
  calls,             \* every findMatches call made so far
  limiter,           \* a RateLimiter: interval, lastCall, queue, processing
  loops,             \* the processQueue activations that went to sleep
  waits,             \* every wait() call made so far: pending or resolved
  releases           \* the waiters released so far, in order, with the time

engineVars ==
  <<workflows, executions, activeExecutions, nextId, registrations, rejected,
    scheduledJobs, jobs>>
paramVars == <<prepared>>
dedupVars == <<config, cache, store, clock, calls>>
limiterVars == <<limiter, loops, waits, releases>>
vars == <<engineVars, paramVars, dedupVars, limiterVars>>

(***************************************************************************)
(* Bounds of the model.                                                    *)
(***************************************************************************)
MaxSteps == 2        \* steps of a registered definition
MaxExec == 1         \* execute() calls that find their workflow
MaxRegs == 1         \* register() calls
MaxAttemptsIn == 2   \* maxAttempts of an explicitly given retry policy
MaxSchedRegs == 2    \* register() calls where workflows are scheduled
MaxConcurrent == 2   \* Executions started where workflows are scheduled
MaxResults == 2      \* results of an Execution whose step's params are resolved
MaxCalls == 2        \* findMatches calls
MaxActionRegs == 2   \* register() calls where the actions' forms are looked at
MaxClockSteps == 3   \* times the clock advances, by half the cache's TTL

(***************************************************************************)
(* Program constants.                                                      *)
(***************************************************************************)
DefaultTimeout == 300000        \* normalizeSteps
DefaultRetries == 3             \* normalizeSteps
DefaultMaxAttempts == 3         \* getDefaultRetryPolicy
DefaultInitialDelay == 1000     \* getDefaultRetryPolicy
DefaultMaxDelay == 30000        \* getDefaultRetryPolicy
FallbackMaxDelay == 60000       \* calculateDelay: policy.maxDelay || 60000
RetentionMs == 300000           \* execute: finally, setTimeout
CacheTtlMs == 3600000           \* findMatches: 1 hour TTL

WorkflowNames == {"daily-sync", "emergency-maintenance"}

(***************************************************************************)
(* The integrations PMIP.setupIntegrations registers, with the methods    *)
(* the workflows call.                                                     *)
(***************************************************************************)
Integrations ==
  [propertyware |-> {"getPortfolios", "getWorkOrders"},
   servicefusion |-> {"createJob", "getJobs"}]

\* PMIP.getIntegration: this.integrations.get(name); FALSE stands for undefined
hasIntegration(name) == name \in DOMAIN Integrations

\* integrationInstance[method] is a function
hasMethod(name, method) == hasIntegration(name) /\ method \in Integrations[name]

(***************************************************************************)
(* String.prototype.split('.') on a token sequence: the pieces between the *)
(* dots, each the concatenation of its tokens.                             *)
(***************************************************************************)
RECURSIVE split(_)
split(s) ==
  IF s = <<>> THEN <<"">>
  ELSE LET rest == split(Tail(s))
       IN IF Head(s) = "." THEN <<"">> \o rest
          ELSE <<Head(s) \o Head(rest)>> \o Tail(rest)

\* const [integration, method] = step.action.split('.')
integrationOf(action) == split(action)[1]
methodOf(action) ==
  IF Len(split(action)) >= 2 THEN split(action)[2] ELSE "undefined"

(***************************************************************************)
(* Inputs of register().                                                   *)
(***************************************************************************)
ActGetPortfolios == <<"propertyware", ".", "getPortfolios">>
ActCreateJob == <<"servicefusion", ".", "createJob">>
ActUnknownIntegration == <<"yardi", ".", "getUnits">>
ActUnknownMethod == <<"propertyware", ".", "updateStatus">>

CondNone == ""
CondFalse == "false"
CondHasResults == "execution.results.length > 0"
CondParamsPriority == "params.priority === \"emergency\""

RawStep(form, action, condition) ==
  [form |-> form, action |-> action, condition |-> condition,
   timeout |-> 0, retries |-> 0]

RawSteps ==
  { RawStep("string", ActGetPortfolios, CondNone),
    RawStep("object", ActCreateJob, CondHasResults),
    RawStep("object", ActGetPortfolios, CondFalse),
    RawStep("object", ActCreateJob, CondParamsPriority),
    RawStep("object", ActUnknownIntegration, CondNone),
    RawStep("object", ActUnknownMethod, CondNone) }

NoHandler == [present |-> FALSE, action |-> <<>>, timeout |-> 0]
Handlers ==
  { NoHandler,
    [present |-> TRUE, action |-> ActCreateJob, timeout |-> 0],
    [present |-> TRUE, action |-> ActUnknownIntegration, timeout |-> 0] }

Backoffs == {"fixed", "linear", "exponential"}
NoPolicy ==
  [present |-> FALSE, maxAttempts |-> 0, backoff |-> "", initialDelay |-> 0,
   maxDelay |-> 0]
RawPolicies ==
  {NoPolicy} \cup
  [present : {TRUE}, maxAttempts : 1..MaxAttemptsIn, backoff : Backoffs,
   initialDelay : {1000}, maxDelay : {1500}]

\* workflow.schedule: absent, or a cron expression
NoSchedule == ""
EveryHalfMinute == "0 */30 12-23 * * 2-6"
Monthly == "0 0 1 * *"

WorkflowInputs ==
  [steps : UNION {[1..n -> RawSteps] : n \in 0..MaxSteps},
   errorHandler : Handlers,
   retryPolicy : RawPolicies,
   schedule : {NoSchedule}]

\* the definitions registered where workflows are scheduled
ScheduledInputs ==
  [steps : {<<RawStep("string", ActGetPortfolios, CondNone)>>},
   errorHandler : {NoHandler},
   retryPolicy : {[present |-> TRUE, maxAttempts |-> MaxAttemptsIn,
                   backoff |-> "fixed", initialDelay |-> 1000, maxDelay |-> 0]},
   schedule : {NoSchedule, EveryHalfMinute, Monthly}]

\* actions of other forms: the deduplication service's findMatches, and
\* actions without a dot, without a capability and without an operation
ActFindMatches == <<"deduplication", ".", "findMatches">>
ActNoDot == <<"getPortfolios">>
ActEmptyCapability == <<".", "getPortfolios">>
ActEmptyOperation == <<"propertyware", ".">>

\* a step that sets its own retries
OwnRetries == 1

\* the definitions registered where the actions' forms are looked at
ActionInputs ==
  [steps : {<<RawStep("object", ActFindMatches, CondNone)>>,
            <<RawStep("string", ActNoDot, CondNone)>>,
            <<RawStep("object", ActEmptyCapability, CondNone)>>,
            <<RawStep("object", ActEmptyOperation, CondNone)>>,
            <<[RawStep("object", ActCreateJob, CondNone)
               EXCEPT !.retries = OwnRetries]>>},
   errorHandler : {NoHandler},
   retryPolicy : {[present |-> TRUE, maxAttempts |-> MaxAttemptsIn,
                   backoff |-> "fixed", initialDelay |-> 1000, maxDelay |-> 0]},
   schedule : {NoSchedule, Monthly}]

(***************************************************************************)
(* register().                                                             *)
(***************************************************************************)
\* normalizeSteps, one step
normalizeStep(step) ==
  IF step.form = "string"
  THEN [action |-> step.action, condition |-> "", timeout |-> DefaultTimeout,
        retries |-> DefaultRetries]
  ELSE [action |-> step.action, condition |-> step.condition,
        timeout |-> IF step.timeout # 0 THEN step.timeout ELSE DefaultTimeout,
        retries |-> IF step.retries # 0 THEN step.retries ELSE DefaultRetries]

normalizeSteps(steps) == [k \in 1..Len(steps) |-> normalizeStep(steps[k])]

getDefaultRetryPolicy ==
  [present |-> TRUE, maxAttempts |-> DefaultMaxAttempts,
   backoff |-> "exponential", initialDelay |-> DefaultInitialDelay,
   maxDelay |-> DefaultMaxDelay]

StoredDefinition(workflow) ==
  [steps |-> normalizeSteps(workflow.steps),
   errorHandler |-> workflow.errorHandler,
   retryPolicy |-> IF workflow.retryPolicy.present
                   THEN workflow.retryPolicy ELSE getDefaultRetryPolicy,
   schedule |-> workflow.schedule]

(***************************************************************************)
(* An Execution, with the engine's position in execute()/executeStep()    *)
(* for it (pc, i, inHandler, attempt, lastError, caught) and the history  *)
(* of what the engine did for it (log): events emitted, dispatches and    *)
(* their outcomes, sleeps, and what execute() handed back to its caller.  *)
(* abandoned counts the collaborator calls whose attempt lost the race     *)
(* against its timeout and that have not settled yet.                      *)
(***************************************************************************)
Entry(k, step, n, v, h) == [k |-> k, step |-> step, n |-> n, v |-> v, h |-> h]

Log(e, entry) == [e EXCEPT !.log = Append(@, entry)]

\* What collaborators return, and how a call can fail.
ResultValues == {"resultA", "resultB"}
CollaboratorErrors == {"ECONNRESET"}
StepTimeoutError == "Step timeout"
NotAFunctionError == "TypeError"
IntegrationNotFoundError == "Integration not found"

(***************************************************************************)
(* JavaScript values: undefined, null, a string (a token sequence), an    *)
(* object (its own enumerable properties) and an array.                    *)
(***************************************************************************)
Undefined == [t |-> "undefined"]
Null == [t |-> "null"]
Str(s) == [t |-> "string", s |-> s]
Obj(f) == [t |-> "object", f |-> f]
Arr(q) == [t |-> "array", f |-> q]
Num(n) == [t |-> "number", n |-> n]
\* a TypeError thrown where a value was expected
TypeError == [t |-> "TypeError"]

\* the params a caller hands to execute(); a cron tick hands none
ManualParams == Obj([priority |-> Str(<<"emergency">>)])

\* generateExecutionId: `exec-${Date.now()}-${Math.random()...substr(2, 9)}`
generateExecutionId(now, random) == <<"exec", now, random>>

\* Date.now() at a call of execute(), and the nine base-36 digits that
\* Math.random().toString(36).substr(2, 9) yields
Instants == {1000}
RandomDigits == {"k3x9f0a1z", "p0q2m7c4b"}

\* execute(): the Execution object, activeExecutions.set and 'workflow.started'
NewExecution(id, name, workflow, params) ==
  [id |-> id, workflow |-> name, def |-> workflow, params |-> params,
   status |-> "running",
   currentStep |-> 0, results |-> <<>>, error |-> "", endTime |-> FALSE,
   pc |-> "loop", i |-> 0, inHandler |-> FALSE, attempt |-> 0,
   lastError |-> "undefined", caught |-> "", cleanupTimer |-> FALSE,
   abandoned |-> 0,
   log |-> <<Entry("emit.started", 0, 0, "", FALSE)>>]

\* The step executeStep is running, and the retry policy it runs under.
Target(e) == IF e.inHandler THEN e.def.errorHandler ELSE e.def.steps[e.i + 1]
Policy(e) == IF e.inHandler THEN getDefaultRetryPolicy ELSE e.def.retryPolicy

\* new Function('execution', `return ${condition}`)(execution) throws
conditionThrows(condition, e) == condition = CondParamsPriority

\* ... and its value when it does not
conditionValue(condition, e) ==
  CASE condition = CondFalse -> FALSE
    [] condition = CondHasResults -> Len(e.results) > 0
    [] OTHER -> TRUE

evaluateCondition(condition, e) ==
  IF conditionThrows(condition, e) THEN FALSE ELSE conditionValue(condition, e)

Min(a, b) == IF a <= b THEN a ELSE b

calculateDelay(attempt, policy) ==
  CASE policy.backoff = "exponential" ->
         Min(policy.initialDelay * 2^attempt,
             IF policy.maxDelay # 0 THEN policy.maxDelay ELSE FallbackMaxDelay)
    [] policy.backoff = "linear" -> policy.initialDelay * (attempt + 1)
    [] OTHER -> policy.initialDelay

\* execute(): emit 'workflow.error', throw error, and the finally block
emitErrorAndThrow(e) ==
  [Log(Log(e, Entry("emit.error", e.currentStep, e.id, e.caught, FALSE)),
       Entry("raise", e.currentStep, 0, e.caught, FALSE))
   EXCEPT !.pc = "raised", !.inHandler = FALSE, !.cleanupTimer = TRUE]

\* stepSucceeded with results.unshift(result) in place of results.push(result)
stepSucceededUnshift(e, result) ==
  LET e1 == Log(e, Entry("ok", e.currentStep, e.attempt, result, e.inHandler))
  IN IF e.inHandler
     THEN emitErrorAndThrow(e1)
     ELSE Log([e1 EXCEPT !.results = <<result>> \o @, !.i = @ + 1, !.pc = "loop"],
              Entry("emit.progress", e.i, Len(e.def.steps), result, FALSE))

\* stepSucceeded that pushes the error handler's result as well
stepSucceededKeepHandlerResult(e, result) ==
  LET e1 == Log(e, Entry("ok", e.currentStep, e.attempt, result, e.inHandler))
  IN IF e.inHandler
     THEN emitErrorAndThrow([e1 EXCEPT !.results = Append(@, result)])
     ELSE Log([e1 EXCEPT !.results = Append(@, result), !.i = @ + 1, !.pc = "loop"],
              Entry("emit.progress", e.i, Len(e.def.steps), result, FALSE))

\* executeStep returned result: execute() pushes it and emits
\* 'workflow.progress'; the error handler's result is dropped.
stepSucceeded(e, result) ==
  LET e1 == Log(e, Entry("ok", e.currentStep, e.attempt, result, e.inHandler))
  IN IF e.inHandler
     THEN emitErrorAndThrow(e1)
     ELSE Log([e1 EXCEPT !.results = Append(@, result), !.i = @ + 1, !.pc = "loop"],
              Entry("emit.progress", e.i, Len(e.def.steps), result, FALSE))

RECURSIVE executeStep(_)

\* catchBlock that emits 'workflow.error' before it runs the error handler
catchBlockEmitFirst(e, error) ==
  LET e1 == Log([e EXCEPT !.status = "failed", !.error = error, !.caught = error],
                Entry("status.failed", e.currentStep, 0, error, FALSE))
      e2 == Log(e1, Entry("emit.error", e.currentStep, e.id, error, FALSE))
  IN IF e1.def.errorHandler.present
     THEN executeStep(Log([e2 EXCEPT !.inHandler = TRUE],
                          Entry("handler.invoke", e.currentStep, 0, "", TRUE)))
     ELSE emitErrorAndThrow(e1)

\* execute(): the catch block up to the error handler's executeStep
catchBlock(e, error) ==
  LET e1 == Log([e EXCEPT !.status = "failed", !.error = error, !.caught = error],
                Entry("status.failed", e.currentStep, 0, error, FALSE))
  IN IF e1.def.errorHandler.present
     THEN executeStep(Log([e1 EXCEPT !.inHandler = TRUE],
                          Entry("handler.invoke", e.currentStep, 0, "", TRUE)))
     ELSE emitErrorAndThrow(e1)

\* throwFromStep without the try/catch around the error handler: the
\* handler's error replaces the step's
throwFromStepPropagate(e, error) ==
  IF e.inHandler
  THEN emitErrorAndThrow(Log([e EXCEPT !.caught = error, !.error = error],
                             Entry("handler.failed", e.currentStep, 0, error, TRUE)))
  ELSE catchBlock(e, error)

\* An error leaves executeStep: into execute()'s catch block, or, from the
\* error handler, into the inner catch that only logs it.
throwFromStep(e, error) ==
  IF e.inHandler
  THEN emitErrorAndThrow(Log(e, Entry("handler.failed", e.currentStep, 0, error, TRUE)))
  ELSE catchBlock(e, error)

\* attemptFailed that goes on to the next step when the attempts are used up
attemptFailedContinue(e, error) ==
  LET e1 == Log([e EXCEPT !.lastError = error],
                Entry("fail", e.currentStep, e.attempt, error, e.inHandler))
  IN IF e.attempt < Policy(e).maxAttempts - 1
     THEN Log([e1 EXCEPT !.pc = "sleeping"],
              Entry("sleep", e.currentStep, calculateDelay(e.attempt, Policy(e)),
                    "", e.inHandler))
     ELSE IF e.inHandler THEN throwFromStep(e1, e1.lastError)
     ELSE [e1 EXCEPT !.pc = "loop", !.i = @ + 1]

\* attemptFailed that keeps the first attempt's error in lastError
attemptFailedKeepFirst(e, error) ==
  LET e1 == Log([e EXCEPT !.lastError = IF @ = "undefined" THEN error ELSE @],
                Entry("fail", e.currentStep, e.attempt, error, e.inHandler))
  IN IF e.attempt < Policy(e).maxAttempts - 1
     THEN Log([e1 EXCEPT !.pc = "sleeping"],
              Entry("sleep", e.currentStep, calculateDelay(e.attempt, Policy(e)),
                    "", e.inHandler))
     ELSE throwFromStep(e1, e1.lastError)

\* attemptFailed with the loop test attempt <= maxAttempts
attemptFailedOneMore(e, error) ==
  LET e1 == Log([e EXCEPT !.lastError = error],
                Entry("fail", e.currentStep, e.attempt, error, e.inHandler))
  IN IF e.attempt < Policy(e).maxAttempts
     THEN Log([e1 EXCEPT !.pc = "sleeping"],
              Entry("sleep", e.currentStep, calculateDelay(e.attempt, Policy(e)),
                    "", e.inHandler))
     ELSE throwFromStep(e1, e1.lastError)

\* executeStep: the catch inside the retry loop, and the throw after it
attemptFailed(e, error) ==
  LET e1 == Log([e EXCEPT !.lastError = error],
                Entry("fail", e.currentStep, e.attempt, error, e.inHandler))
  IN IF e.attempt < Policy(e).maxAttempts - 1
     THEN Log([e1 EXCEPT !.pc = "sleeping"],
              Entry("sleep", e.currentStep, calculateDelay(e.attempt, Policy(e)),
                    "", e.inHandler))
     ELSE throwFromStep(e1, e1.lastError)

\* executeStep: one pass of the retry loop up to await Promise.race
startAttempt(e) ==
  LET e1 == Log(e, Entry("dispatch", e.currentStep, e.attempt, "", e.inHandler))
      action == Target(e).action
  IN IF hasMethod(integrationOf(action), methodOf(action))
     THEN [e1 EXCEPT !.pc = "inflight"]
     ELSE attemptFailed(e1, NotAFunctionError)

\* executeStep that returns undefined for an integration that is not set up
executeStepIgnoreMissing(e) ==
  IF ~hasIntegration(integrationOf(Target(e).action))
  THEN stepSucceeded(e, "undefined")
  ELSE IF Policy(e).maxAttempts < 1
  THEN throwFromStep(e, "undefined")
  ELSE startAttempt([e EXCEPT !.attempt = 0, !.lastError = "undefined"])

executeStep(e) ==
  IF ~hasIntegration(integrationOf(Target(e).action))
  THEN throwFromStep(e, IntegrationNotFoundError)
  ELSE IF Policy(e).maxAttempts < 1
  THEN throwFromStep(e, "undefined")
  ELSE startAttempt([e EXCEPT !.attempt = 0, !.lastError = "undefined"])

\* execute(): after the loop
complete(e) ==
  [Log(Log([e EXCEPT !.status = "completed", !.endTime = TRUE],
           Entry("emit.completed", e.currentStep, Len(e.results), "", FALSE)),
       Entry("return", e.currentStep, 0, "", FALSE))
   EXCEPT !.pc = "returned", !.cleanupTimer = TRUE]

\* skipStep that reserves the skipped step's slot in results
skipStepReserveSlot(e) ==
  Log([e EXCEPT !.i = @ + 1, !.results = Append(@, "null")],
      Entry("skip", e.i, 0, "", FALSE))

\* execute(): the step's condition is false: logger.debug and continue
skipStep(e) == Log([e EXCEPT !.i = @ + 1], Entry("skip", e.i, 0, "", FALSE))

\* loopIteration that walks the steps from the last one down
loopIterationFromLast(e) ==
  IF e.i >= Len(e.def.steps) THEN complete(e)
  ELSE LET step == e.def.steps[e.i + 1]
           e1 == [e EXCEPT !.currentStep = Len(e.def.steps) - 1 - e.i]
       IN IF step.condition # "" /\ ~evaluateCondition(step.condition, e1)
          THEN skipStep(e1)
          ELSE executeStep(e1)

\* execute(): the loop test and one iteration up to its first await
loopIteration(e) ==
  IF e.i >= Len(e.def.steps) THEN complete(e)
  ELSE LET step == e.def.steps[e.i + 1]
           e1 == [e EXCEPT !.currentStep = e.i]
           e2 == IF step.condition # "" /\ conditionThrows(step.condition, e1)
                 THEN Log(e1, Entry("condition.error", e.i, 0, "", FALSE))
                 ELSE e1
       IN IF step.condition # "" /\ ~evaluateCondition(step.condition, e1)
          THEN skipStep(e2)
          ELSE executeStep(e2)

(***************************************************************************)
(* The state machine.                                                      *)
(***************************************************************************)
EmptyMap == [x \in {} |-> 0]
Put(map, key, value) ==
  [x \in DOMAIN map \cup {key} |-> IF x = key THEN value ELSE map[x]]

\* the parts of the platform that a specification of the others leaves alone
EngineIdle ==
  /\ workflows = EmptyMap
  /\ executions = EmptyMap
  /\ activeExecutions = {}
  /\ nextId = 1
  /\ registrations = 0
  /\ rejected = {}
  /\ scheduledJobs = EmptyMap
  /\ jobs = <<>>
ParamsIdle == prepared = [pc |-> "idle"]
DedupIdle ==
  /\ config = [enabled |-> FALSE, cache |-> FALSE, confidence |-> 0,
               strategies |-> <<>>]
  /\ cache = EmptyMap
  /\ store = [entities |-> {}, down |-> FALSE]
  /\ clock = 0
  /\ calls = <<>>
\* new RateLimiter(): requestsPerSecond = 1
LimiterIdle ==
  /\ limiter = [interval |-> 1000, lastCall |-> 0, queue |-> <<>>,
                processing |-> FALSE]
  /\ loops = <<>>
  /\ waits = <<>>
  /\ releases = <<>>

Init == EngineIdle /\ ParamsIdle /\ DedupIdle /\ LimiterIdle

\* scheduleWorkflow: stop the task bound to the name, bind a new one
scheduleWorkflow(name, schedule) ==
  LET stopped == IF name \in DOMAIN scheduledJobs
                 THEN [jobs EXCEPT ![scheduledJobs[name]].running = FALSE]
                 ELSE jobs
  IN /\ jobs' = Append(stopped, [name |-> name, schedule |-> schedule,
                                 running |-> TRUE])
     /\ scheduledJobs' = Put(scheduledJobs, name, Len(jobs) + 1)

register(name, workflow) ==
  /\ registrations' = registrations + 1
  /\ workflows' = Put(workflows, name, StoredDefinition(workflow))
  /\ IF workflow.schedule # NoSchedule
     THEN scheduleWorkflow(name, workflow.schedule)
     ELSE UNCHANGED <<scheduledJobs, jobs>>
  /\ UNCHANGED <<executions, activeExecutions, nextId, rejected, paramVars, dedupVars, limiterVars>>

\* execute(name) that creates and retains the Execution before the lookup
executeNotFoundRetains(name) ==
  /\ name \notin DOMAIN workflows
  /\ rejected' = rejected \cup {name}
  /\ activeExecutions' = activeExecutions \cup {nextId}
  /\ nextId' = nextId + 1
  /\ UNCHANGED <<workflows, executions, registrations, scheduledJobs, jobs,
                 paramVars, dedupVars, limiterVars>>

\* execute(name) when this.workflows.get(name) is undefined
executeNotFound(name) ==
  /\ name \notin DOMAIN workflows
  /\ rejected' = rejected \cup {name}
  /\ UNCHANGED <<workflows, executions, activeExecutions, nextId, registrations,
                 scheduledJobs, jobs, paramVars, dedupVars, limiterVars>>

\* this.activeExecutions without the entry under the key id
withoutKey(id) == {o \in activeExecutions : executions[o].id # id}

\* execute(name, params) up to the start of the loop; now and random are
\* what Date.now() and Math.random() give generateExecutionId
execute(name, params, now, random) ==
  /\ name \in DOMAIN workflows
  /\ LET id == generateExecutionId(now, random)
     IN /\ executions' = Put(executions, nextId,
                             NewExecution(id, name, workflows[name], params))
        /\ activeExecutions' = withoutKey(id) \cup {nextId}
  /\ nextId' = nextId + 1
  /\ UNCHANGED <<workflows, registrations, rejected, scheduledJobs, jobs,
                 paramVars, dedupVars, limiterVars>>

\* Tick that waits for the Executions of its workflow to end
TickSerial(job, now, random) ==
  /\ jobs[job].running
  /\ \A o \in DOMAIN executions :
       executions[o].workflow = jobs[job].name =>
         executions[o].pc \in {"returned", "raised"}
  /\ execute(jobs[job].name, Undefined, now, random)

\* a tick of a cron task: the callback scheduleWorkflow gave cron.schedule
Tick(job, now, random) ==
  /\ jobs[job].running
  /\ execute(jobs[job].name, Undefined, now, random)

stopAll ==
  /\ scheduledJobs # EmptyMap
  /\ jobs' = [j \in DOMAIN jobs |->
                IF \E name \in DOMAIN scheduledJobs : scheduledJobs[name] = j
                THEN [jobs[j] EXCEPT !.running = FALSE] ELSE jobs[j]]
  /\ scheduledJobs' = EmptyMap
  /\ UNCHANGED <<workflows, executions, activeExecutions, nextId, registrations,
                 rejected, paramVars, dedupVars, limiterVars>>

Continue(id, e) ==
  /\ executions' = [executions EXCEPT ![id] = e]
  /\ UNCHANGED <<workflows, activeExecutions, nextId, registrations, rejected,
                 scheduledJobs, jobs, paramVars, dedupVars, limiterVars>>

LoopStep(id) ==
  /\ executions[id].pc = "loop"
  /\ Continue(id, loopIteration(executions[id]))

AttemptResolves(id, result) ==
  /\ executions[id].pc = "inflight"
  /\ Continue(id, stepSucceeded(executions[id], result))

AttemptRejects(id, error) ==
  /\ executions[id].pc = "inflight"
  /\ Continue(id, attemptFailed(executions[id], error))

\* AttemptTimesOut that arms no timer for the error handler's attempts
AttemptTimesOutStepsOnly(id) ==
  /\ executions[id].pc = "inflight"
  /\ ~executions[id].inHandler
  /\ Continue(id, attemptFailed([executions[id] EXCEPT !.abandoned = @ + 1],
                                StepTimeoutError))

\* timeoutPromise rejects first: Promise.race throws 'Step timeout', and
\* resultPromise, which nothing cancels, stays pending
AttemptTimesOut(id) ==
  /\ executions[id].pc = "inflight"
  /\ Continue(id, attemptFailed([executions[id] EXCEPT !.abandoned = @ + 1],
                                StepTimeoutError))

\* a resultPromise that lost its race settles: nothing awaits it any more
AbandonedCallSettles(id) ==
  /\ executions[id].abandoned > 0
  /\ Continue(id, [executions[id] EXCEPT !.abandoned = @ - 1])

SleepEnds(id) ==
  /\ executions[id].pc = "sleeping"
  /\ Continue(id, startAttempt([executions[id] EXCEPT !.attempt = @ + 1]))

\* the finally block's timer: this.activeExecutions.delete(executionId)
CleanupTimerFires(id) ==
  /\ executions[id].cleanupTimer
  /\ executions' = [executions EXCEPT ![id].cleanupTimer = FALSE]
  /\ activeExecutions' = withoutKey(executions[id].id)
  /\ UNCHANGED <<workflows, nextId, registrations, rejected, scheduledJobs, jobs,
                 paramVars, dedupVars, limiterVars>>

Next ==
  \/ /\ registrations < MaxRegs
     /\ \E name \in WorkflowNames, workflow \in WorkflowInputs : register(name, workflow)
  \/ \E name \in WorkflowNames : executeNotFound(name)
  \/ /\ nextId <= MaxExec
     /\ \E name \in WorkflowNames, now \in Instants :
          execute(name, Undefined, now, "k3x9f0a1z")
  \/ \E id \in DOMAIN executions : LoopStep(id)
  \/ \E id \in DOMAIN executions, result \in ResultValues : AttemptResolves(id, result)
  \/ \E id \in DOMAIN executions, error \in CollaboratorErrors : AttemptRejects(id, error)
  \/ \E id \in DOMAIN executions : AttemptTimesOut(id)
  \/ \E id \in DOMAIN executions : SleepEnds(id)
  \/ \E id \in DOMAIN executions : CleanupTimerFires(id)

Spec == Init /\ [][Next]_vars

(***************************************************************************)
(* The engine with scheduled workflows: registrations with and without a  *)
(* schedule, the ticks of the cron tasks, direct execute() calls with     *)
(* params, and stopAll.  Date.now() and Math.random() give what they can.  *)
(***************************************************************************)
NextScheduled ==
  \/ /\ registrations < MaxSchedRegs
     /\ \E name \in WorkflowNames, workflow \in ScheduledInputs : register(name, workflow)
  \/ /\ nextId <= MaxConcurrent
     /\ \E job \in DOMAIN jobs, now \in Instants, random \in RandomDigits :
          Tick(job, now, random)
  \/ /\ nextId <= MaxConcurrent
     /\ \E name \in WorkflowNames, now \in Instants, random \in RandomDigits :
          execute(name, ManualParams, now, random)
  \/ stopAll
  \/ \E id \in DOMAIN executions : LoopStep(id)
  \/ \E id \in DOMAIN executions : AttemptResolves(id, "resultA")
  \/ \E id \in DOMAIN executions, error \in CollaboratorErrors : AttemptRejects(id, error)
  \/ \E id \in DOMAIN executions : SleepEnds(id)
  \/ \E id \in DOMAIN executions : CleanupTimerFires(id)

SpecScheduled == Init /\ [][NextScheduled]_vars

(***************************************************************************)
(* The engine with its timers: every attempt races its step's timeout,    *)
(* collaborator calls may never settle, and the timers the engine sets    *)
(* (the step timeout, the backoff sleep, the retention timer) fire.  A     *)
(* continuation that is ready to run (the loop after an await) runs.       *)
(***************************************************************************)
MaxTimerRegs == 1    \* register() calls where the timers are looked at
MaxTimerExec == 1    \* Executions started where the timers are looked at

TimerInputs ==
  [steps : {<<RawStep("string", ActGetPortfolios, CondNone)>>,
            <<RawStep("string", ActGetPortfolios, CondNone),
              RawStep("object", ActCreateJob, CondNone)>>},
   errorHandler : {NoHandler,
                   [present |-> TRUE, action |-> ActCreateJob, timeout |-> 0]},
   retryPolicy : {NoPolicy,
                  [present |-> TRUE, maxAttempts |-> MaxAttemptsIn,
                   backoff |-> "fixed", initialDelay |-> 1000, maxDelay |-> 0]},
   schedule : {NoSchedule}]

NextTimers ==
  \/ /\ registrations < MaxTimerRegs
     /\ \E workflow \in TimerInputs : register("daily-sync", workflow)
  \/ /\ nextId <= MaxTimerExec
     /\ \E now \in Instants, random \in RandomDigits :
          execute("daily-sync", Undefined, now, random)
  \/ \E id \in DOMAIN executions : LoopStep(id)
  \/ \E id \in DOMAIN executions : AttemptResolves(id, "resultA")
  \/ \E id \in DOMAIN executions : AttemptTimesOut(id)
  \/ \E id \in DOMAIN executions : SleepEnds(id)
  \/ \E id \in DOMAIN executions : CleanupTimerFires(id)
  \/ \E id \in DOMAIN executions : AbandonedCallSettles(id)

\* setTimeout callbacks and ready continuations are run by the event loop
TimersFire ==
  \A id \in 1..MaxTimerExec :
    /\ WF_vars(id \in DOMAIN executions /\ LoopStep(id))
    /\ WF_vars(id \in DOMAIN executions /\ AttemptTimesOut(id))
    /\ WF_vars(id \in DOMAIN executions /\ SleepEnds(id))
    /\ WF_vars(id \in DOMAIN executions /\ CleanupTimerFires(id))

SpecTimers == Init /\ [][NextTimers]_vars /\ TimersFire

(***************************************************************************)
(* The engine with definitions whose actions have other forms.             *)
(***************************************************************************)
NextActions ==
  \/ /\ registrations < MaxActionRegs
     /\ \E name \in WorkflowNames, workflow \in ActionInputs : register(name, workflow)
  \/ /\ nextId <= MaxExec
     /\ \E name \in WorkflowNames, now \in Instants :
          execute(name, Undefined, now, "k3x9f0a1z")
  \/ \E id \in DOMAIN executions : LoopStep(id)
  \/ \E id \in DOMAIN executions : AttemptResolves(id, "resultA")
  \/ \E id \in DOMAIN executions, error \in CollaboratorErrors : AttemptRejects(id, error)
  \/ \E id \in DOMAIN executions : SleepEnds(id)
  \/ \E id \in DOMAIN executions : CleanupTimerFires(id)

SpecActions == Init /\ [][NextActions]_vars

(***************************************************************************)
(* resolveParams: the parameters executeStep hands to the action.          *)
(***************************************************************************)
\* s.startsWith('{{'), s.endsWith('}}'): a brace pair is one token
startsWith(s, prefix) == Len(s) >= 1 /\ s[1] = prefix
endsWith(s, suffix) == Len(s) >= 1 /\ s[Len(s)] = suffix

\* s.slice(2, -2) of a string that starts with "{{" and ends with "}}"
slice(s) == SubSeq(s, 2, Len(s) - 1)

\* the index a property name denotes in an array
ArrayIndex == [key \in {"0", "1", "2"} |->
                 CASE key = "0" -> 1 [] key = "1" -> 2 [] key = "2" -> 3]

\* current?.[key], for the keys the paths of the model hold: names of
\* properties and array indices (no "length", no inherited property)
get(current, key) ==
  CASE current.t = "object" ->
         IF key \in DOMAIN current.f THEN current.f[key] ELSE Undefined
    [] current.t = "array" ->
         IF key \in DOMAIN ArrayIndex /\ ArrayIndex[key] <= Len(current.f)
         THEN current.f[ArrayIndex[key]] ELSE Undefined
    [] OTHER -> Undefined

\* keys.reduce((current, key) => current?.[key], current)
RECURSIVE reduce(_, _)
reduce(keys, current) ==
  IF keys = <<>> THEN current
  ELSE reduce(Tail(keys), get(current, Head(keys)))

\* reduce with current[key] in place of current?.[key]
RECURSIVE reduceStrict(_, _)
reduceStrict(keys, current) ==
  IF keys = <<>> THEN current
  ELSE IF current.t \in {"undefined", "null", "TypeError"} THEN TypeError
  ELSE reduceStrict(Tail(keys), get(current, Head(keys)))

\* getValueByPath that throws below an absent value
getValueByPathStrict(obj, path) == reduceStrict(split(path), obj)

getValueByPath(obj, path) == reduce(split(path), obj)

\* JSON.parse(JSON.stringify(v)): a property whose value is undefined is
\* dropped, an undefined array element becomes null
RECURSIVE jsonClone(_)
jsonClone(v) ==
  CASE v.t = "object" ->
         Obj([key \in {k \in DOMAIN v.f : v.f[k].t # "undefined"} |->
                jsonClone(v.f[key])])
    [] v.t = "array" ->
         Arr([k \in 1..Len(v.f) |->
                IF v.f[k].t = "undefined" THEN Null ELSE jsonClone(v.f[k])])
    [] OTHER -> v

\* replaceTokens: for-in over an object or an array; over anything else it
\* changes nothing
RECURSIVE replaceTokens(_, _)
replaceTokens(obj, execution) ==
  LET replaced(v) ==
        IF v.t = "string" /\ startsWith(v.s, "{{") /\ endsWith(v.s, "}}")
        THEN getValueByPath(execution, slice(v.s))
        ELSE IF v.t \in {"object", "array", "null"}
        THEN replaceTokens(v, execution)
        ELSE v
  IN CASE obj.t = "object" -> Obj([key \in DOMAIN obj.f |-> replaced(obj.f[key])])
       [] obj.t = "array" -> Arr([k \in 1..Len(obj.f) |-> replaced(obj.f[k])])
       [] OTHER -> obj

resolveParams(params, execution) ==
  IF params.t \in {"undefined", "null"} THEN Obj(EmptyMap)
  ELSE replaceTokens(jsonClone(params), execution)

\* a call of resolveParams that works on step.params itself, not on a clone:
\* replaceTokens assigns into the template
resolveParamsInPlace(params, execution) ==
  [value |-> IF params.t \in {"undefined", "null"} THEN Obj(EmptyMap)
             ELSE replaceTokens(params, execution),
   params |-> replaceTokens(params, execution)]

\* a call of resolveParams: what it returns, and what step.params holds
\* after it (replaceTokens assigns into the clone only)
resolveParamsCall(params, execution) ==
  [value |-> resolveParams(params, execution), params |-> params]

\* a value holds a thrown error
RECURSIVE throws(_)
throws(v) ==
  CASE v.t = "TypeError" -> TRUE
    [] v.t = "object" -> \E key \in DOMAIN v.f : throws(v.f[key])
    [] v.t = "array" -> \E k \in 1..Len(v.f) : throws(v.f[k])
    [] OTHER -> FALSE

(***************************************************************************)
(* The step parameters and the Executions they are resolved against.      *)
(***************************************************************************)
TokenResultId == <<"{{", "results", ".", "0", ".", "id", "}}">>
TokenSecondResultId == <<"{{", "results", ".", "1", ".", "id", "}}">>
TokenVendorName == <<"{{", "params", ".", "vendor", ".", "name", "}}">>
TokenBelowString == <<"{{", "results", ".", "0", ".", "id", ".", "code", "}}">>
TokenEmptyPath == <<"{{", "}}">>
TwoTokens == <<"{{", "a", "}}", " and ", "{{", "b", "}}">>
TextThenToken == <<"Job for ", "{{", "results", ".", "0", ".", "id", "}}">>
Unterminated == <<"{{", "results", ".", "0", ".", "id">>
PlainText == <<"Annual inspection">>
\* the params of the vendor onboarding workflow's createVendor step
TokenVendor == <<"{{", "params", ".", "vendor", "}}">>

TemplateStrings ==
  {TokenResultId, TokenSecondResultId, TokenVendorName, TokenBelowString,
   TokenEmptyPath, TwoTokens, TextThenToken, Unterminated, PlainText}

\* step.params
ParamsInputs ==
  {Undefined}
  \cup {Obj([a |-> Str(t)]) : t \in TemplateStrings}
  \cup {Obj([job |-> Obj([customer |-> Str(t)]), note |-> Undefined]) :
          t \in TemplateStrings}
  \cup {Obj([ids |-> Arr(<<Str(t), Str(PlainText)>>)]) : t \in TemplateStrings}
  \cup {Str(TokenVendor), Str(TokenResultId), Str(PlainText),
        Arr(<<Str(TokenVendor)>>)}

\* what steps returned
ResultObjects ==
  {Obj([id |-> Str(<<"X">>)]),
   Obj([id |-> Str(<<"Y">>), status |-> Str(<<"open">>)]),
   Null}

\* execution.params
ParamsGiven ==
  {Undefined, ManualParams, Obj([vendor |-> Obj([name |-> Str(<<"Acme">>)])])}

\* the Execution object of execute(), as resolveParams reads it
executionObject(params, results) ==
  Obj([id |-> Str(<<"exec-1000-k3x9f0a1z">>), workflow |-> Str(<<"daily-sync">>),
       params |-> params, status |-> Str(<<"running">>),
       currentStep |-> Num(Len(results)), results |-> Arr(results)])

ExecutionObjects ==
  {executionObject(params, results) :
     params \in ParamsGiven,
     results \in UNION {[1..n -> ResultObjects] : n \in 0..MaxResults}}

\* executeStep has the integration and is about to prepare the parameters
InitParams ==
  /\ EngineIdle /\ DedupIdle /\ LimiterIdle
  /\ \E params \in ParamsInputs, execution \in ExecutionObjects :
       prepared = [pc |-> "called", params |-> params, given |-> params,
                   execution |-> execution, arg |-> Undefined]

\* executeStep: const params = this.resolveParams(step.params, execution),
\* then the dispatch integrationInstance[method](params)
PrepareParams ==
  /\ prepared.pc = "called"
  /\ LET call == resolveParamsCall(prepared.params, prepared.execution)
     IN prepared' = [prepared EXCEPT
                       !.pc = IF throws(call.value) THEN "threw" ELSE "dispatched",
                       !.arg = call.value,
                       !.params = call.params]
  /\ UNCHANGED <<engineVars, dedupVars, limiterVars>>

NextParams == PrepareParams

SpecParams == InitParams /\ [][NextParams]_vars

(***************************************************************************)
(* The deduplication service.  A confidence is a percentage (1.0 is 100); *)
(* a name is a sequence of characters.  The candidate store answers the   *)
(* service's queries from the entities it holds at that moment, or        *)
(* rejects them while it is down.                                          *)
(***************************************************************************)
Acme == <<"A", "c", "m", "e">>

\* the entities handed to findMatches
EntityInputs ==
  {[name |-> Acme, pwEntityId |-> "", sfCustomerId |-> ""],
   [name |-> Acme, pwEntityId |-> "PW-7", sfCustomerId |-> "SF-3"]}

\* the entities the store can hold, row being their order in a query's answer
Candidates ==
  {[row |-> 3, id |-> "c1", name |-> <<"a", "c", "m", "e">>,
    pwEntityId |-> "PW-7", sfCustomerId |-> ""],
   [row |-> 2, id |-> "c2", name |-> <<"A", "c", "m", "e", "s">>,
    pwEntityId |-> "", sfCustomerId |-> "SF-3"],
   [row |-> 1, id |-> "c3", name |-> <<"A", "c", "n", "e">>,
    pwEntityId |-> "", sfCustomerId |-> ""]}

\* the store's history: an entity is indexed, the store goes down, and it
\* comes back with more entities indexed
StoreStates ==
  <<[entities |-> {}, down |-> FALSE],
    [entities |-> {c \in Candidates : c.id = "c1"}, down |-> FALSE],
    [entities |-> {c \in Candidates : c.id = "c1"}, down |-> TRUE],
    [entities |-> Candidates, down |-> FALSE]>>

\* DeduplicationConfig
Configs ==
  [enabled : BOOLEAN, cache : BOOLEAN, confidence : {80},
   strategies : {<<"entity-id", "name-fuzzy">>, <<"name-fuzzy", "entity-id">>}]

\* the rows of a set of store entities, in the order of the answer
RECURSIVE rows(_)
rows(entities) ==
  IF entities = {} THEN <<>>
  ELSE LET first == CHOOSE c \in entities : \A d \in entities : c.row <= d.row
       IN <<first>> \o rows(entities \ {first})

\* queryByPwId, queryBySfId: the entity with that id, or none (an empty
\* answer).  The repository's query methods are placeholders that answer
\* nothing: that is the store that holds no entity.
queryByPwId(pwId) == rows({c \in store.entities : c.pwEntityId = pwId})
queryBySfId(sfId) == rows({c \in store.entities : c.sfCustomerId = sfId})

\* queryByNameFuzzy: the entities with a name
queryByNameFuzzy(name) == rows({c \in store.entities : c.name # <<>>})

toLowerCase(name) ==
  [k \in 1..Len(name) |->
     CASE name[k] = "A" -> "a" [] name[k] = "Z" -> "z" [] OTHER -> name[k]]

Min3(a, b, c) == Min(a, Min(b, c))

RECURSIVE levenshteinDistance(_, _)
levenshteinDistance(str1, str2) ==
  IF str1 = <<>> THEN Len(str2)
  ELSE IF str2 = <<>> THEN Len(str1)
  ELSE IF Head(str1) = Head(str2)
  THEN levenshteinDistance(Tail(str1), Tail(str2))
  ELSE 1 + Min3(levenshteinDistance(Tail(str1), Tail(str2)),
                levenshteinDistance(str1, Tail(str2)),
                levenshteinDistance(Tail(str1), str2))

\* 1 - distance / maxLength, as a percentage
calculateNameSimilarity(name1, name2) ==
  LET distance == levenshteinDistance(toLowerCase(name1), toLowerCase(name2))
      maxLength == IF Len(name1) >= Len(name2) THEN Len(name1) ELSE Len(name2)
  IN ((maxLength - distance) * 100) \div maxLength

Match(id, type, confidence) == [id |-> id, type |-> type, confidence |-> confidence]

\* what a strategy call comes to: its matches, or an error; queried tells
\* whether it asked the store
Outcome(matches, queried) ==
  [threw |-> queried /\ store.down,
   matches |-> IF queried /\ store.down THEN <<>> ELSE matches,
   queried |-> queried]

entityIdStrategy(entity) ==
  LET byPw == IF entity.pwEntityId # "" THEN queryByPwId(entity.pwEntityId) ELSE <<>>
      bySf == IF entity.sfCustomerId # "" THEN queryBySfId(entity.sfCustomerId) ELSE <<>>
      found(answer) == IF answer = <<>> THEN <<>>
                       ELSE <<Match(answer[1].id, "entity-id", 100)>>
  IN Outcome(found(byPw) \o found(bySf),
             entity.pwEntityId # "" \/ entity.sfCustomerId # "")

nameFuzzyStrategy(entity) ==
  IF entity.name = <<>> THEN Outcome(<<>>, FALSE)
  ELSE LET candidates == queryByNameFuzzy(entity.name)
       IN Outcome([k \in 1..Len(candidates) |->
                     Match(candidates[k].id, "name-fuzzy",
                           calculateNameSimilarity(entity.name, candidates[k].name))],
                  TRUE)

\* this.strategies
Strategies == {"entity-id", "name-fuzzy"}
strategy(name, entity) ==
  IF name = "entity-id" THEN entityIdStrategy(entity) ELSE nameFuzzyStrategy(entity)

\* generateHash: the md5 digest of JSON.stringify(entity)
generateHash(entity) == [md5 |-> entity]

\* deduplicateMatches that keeps the last match of each id
RECURSIVE deduplicateKeepLast(_)
deduplicateKeepLast(matches) ==
  IF matches = <<>> THEN <<>>
  ELSE LET back == deduplicateKeepLast(Tail(matches))
       IN IF \E k \in 1..Len(back) : back[k].id = Head(matches).id
          THEN back ELSE <<Head(matches)>> \o back

\* deduplicateMatches: the first match of each id
RECURSIVE deduplicateMatches(_)
deduplicateMatches(matches) ==
  IF matches = <<>> THEN <<>>
  ELSE LET front == deduplicateMatches(SubSeq(matches, 1, Len(matches) - 1))
           last == matches[Len(matches)]
       IN IF \E k \in 1..Len(front) : front[k].id = last.id
          THEN front ELSE Append(front, last)

\* the sort left out
sortByConfidenceSkipped(matches) == matches

\* Array.prototype.sort((a, b) => b.confidence - a.confidence): stable
RECURSIVE sortByConfidence(_)
sortByConfidence(matches) ==
  IF matches = <<>> THEN <<>>
  ELSE LET front == sortByConfidence(SubSeq(matches, 1, Len(matches) - 1))
           last == matches[Len(matches)]
           before == SelectSeq(front, LAMBDA m : m.confidence >= last.confidence)
           after == SelectSeq(front, LAMBDA m : m.confidence < last.confidence)
       IN before \o <<last>> \o after

\* isLive without the TTL
isLiveAlways(entry) == entry.timestamp <= clock

\* Date.now() - cached.timestamp < 3600000
isLive(entry) == clock - entry.timestamp < CacheTtlMs

\* A findMatches call: its position (pc, the strategy k it awaits), its
\* matches so far, what it returned and from where, and its history: the
\* operations it made (trace), the clock at its start and end, the age of
\* the cache entry it found (-1: none), the store at its start, the store
\* states its result rests on (basis) and the calls that had returned when
\* it started (after).
NewCall(entity) ==
  [entity |-> entity, pc |-> "started", k |-> 0, matches |-> <<>>,
   result |-> <<>>, source |-> "", trace |-> <<>>, startClock |-> clock,
   endClock |-> 0,
   entryAge |-> IF generateHash(entity) \in DOMAIN cache
                THEN clock - cache[generateHash(entity)].timestamp ELSE -1,
   startStore |-> store, basis |-> {},
   after |-> {n \in DOMAIN calls : calls[n].pc = "returned"}]

\* the call with one more operation in its trace, arg being a record
Traced(c, op, arg) == [c EXCEPT !.trace = Append(@, [op |-> op, arg |-> arg])]

returns(c, result, source) ==
  [c EXCEPT !.pc = "returned", !.result = result, !.source = source,
            !.endClock = clock]

\* the 'duplicate.detected' event
duplicateDetected(entity, filteredMatches) ==
  [entity |-> entity, matches |-> filteredMatches,
   confidence |-> filteredMatches[1].confidence]

\* finish that leaves the threshold filter out
finishUnfiltered(c) ==
  LET uniqueMatches == sortByConfidence(deduplicateMatches(c.matches))
      c1 == IF config.cache THEN Traced(c, "cache.set", [matches |-> uniqueMatches]) ELSE c
      c2 == IF Len(uniqueMatches) > 0
            THEN Traced(c1, "emit", duplicateDetected(c.entity, uniqueMatches))
            ELSE c1
  IN returns(c2, uniqueMatches, "evaluated")

\* finish that reports the confidence of the last match
finishEmitLowest(c) ==
  LET uniqueMatches == sortByConfidence(deduplicateMatches(c.matches))
      filteredMatches == SelectSeq(uniqueMatches,
                                   LAMBDA m : m.confidence >= config.confidence)
      c1 == IF config.cache THEN Traced(c, "cache.set", [matches |-> filteredMatches]) ELSE c
      c2 == IF Len(filteredMatches) > 0
            THEN Traced(c1, "emit",
                        [duplicateDetected(c.entity, filteredMatches)
                         EXCEPT !.confidence =
                           filteredMatches[Len(filteredMatches)].confidence])
            ELSE c1
  IN returns(c2, filteredMatches, "evaluated")

\* finish that caches the matches before the threshold filter
finishCachingUnfiltered(c) ==
  LET uniqueMatches == sortByConfidence(deduplicateMatches(c.matches))
      filteredMatches == SelectSeq(uniqueMatches,
                                   LAMBDA m : m.confidence >= config.confidence)
      c1 == IF config.cache THEN Traced(c, "cache.set", [matches |-> uniqueMatches]) ELSE c
      c2 == IF Len(filteredMatches) > 0
            THEN Traced(c1, "emit", duplicateDetected(c.entity, filteredMatches))
            ELSE c1
  IN returns(c2, filteredMatches, "evaluated")

\* findMatches after the strategies: deduplicate, sort, filter, cache, emit
finish(c) ==
  LET uniqueMatches == sortByConfidence(deduplicateMatches(c.matches))
      filteredMatches == SelectSeq(uniqueMatches,
                                   LAMBDA m : m.confidence >= config.confidence)
      c1 == IF config.cache THEN Traced(c, "cache.set", [matches |-> filteredMatches]) ELSE c
      c2 == IF Len(filteredMatches) > 0
            THEN Traced(c1, "emit", duplicateDetected(c.entity, filteredMatches))
            ELSE c1
  IN returns(c2, filteredMatches, "evaluated")

\* the strategy loop from index k on, up to the next await strategy(entity)
RECURSIVE runStrategies(_, _)
runStrategies(c, k) ==
  IF k > Len(config.strategies) THEN finish(c)
  ELSE IF config.strategies[k] \notin Strategies THEN runStrategies(c, k + 1)
  ELSE [Traced(c, "strategy", [strategy |-> config.strategies[k]]) EXCEPT !.pc = "awaiting", !.k = k]

\* startCall that looks into the cache before it looks at config.enabled
startCallCacheFirst(c) ==
  LET entityHash == generateHash(c.entity)
      c1 == Traced(c, "cache.has", entityHash)
  IN IF config.cache /\ entityHash \in DOMAIN cache /\ isLive(cache[entityHash])
     THEN [returns(Traced(c1, "cache.get", entityHash),
                   cache[entityHash].matches, "cache")
           EXCEPT !.basis = cache[entityHash].basis]
     ELSE IF ~config.enabled THEN returns(c1, <<>>, "disabled")
     ELSE runStrategies(c1, 1)

\* findMatches up to its first await, or to its return
startCall(c) ==
  IF ~config.enabled THEN returns(c, <<>>, "disabled")
  ELSE LET entityHash == generateHash(c.entity)
           c1 == IF config.cache THEN Traced(c, "cache.has", entityHash) ELSE c
       IN IF config.cache /\ entityHash \in DOMAIN cache
          THEN LET c2 == Traced(c1, "cache.get", entityHash)
               IN IF isLive(cache[entityHash])
                  THEN [returns(c2, cache[entityHash].matches, "cache")
                        EXCEPT !.basis = cache[entityHash].basis]
                  ELSE runStrategies(c2, 1)
          ELSE runStrategies(c1, 1)

\* strategySettles that gives up the loop when a strategy fails
strategySettlesAbort(c) ==
  LET outcome == strategy(config.strategies[c.k], c.entity)
      c1 == [c EXCEPT !.matches = @ \o outcome.matches,
                      !.basis = IF outcome.queried THEN @ \cup {store} ELSE @]
  IN IF outcome.threw
     THEN finish(Traced(c1, "logger.error", [strategy |-> config.strategies[c.k]]))
     ELSE runStrategies(Traced(c1, "push", [strategy |-> config.strategies[c.k],
                                             matches |-> outcome.matches]),
                        c.k + 1)

\* the awaited strategy settles: its matches are pushed, or its error is
\* logged, and the loop goes on
strategySettles(c) ==
  LET outcome == strategy(config.strategies[c.k], c.entity)
      c1 == [c EXCEPT !.matches = @ \o outcome.matches,
                      !.basis = IF outcome.queried THEN @ \cup {store} ELSE @]
      c2 == IF outcome.threw THEN Traced(c1, "logger.error", [strategy |-> config.strategies[c.k]])
            ELSE Traced(c1, "push", [strategy |-> config.strategies[c.k],
                                     matches |-> outcome.matches])
  IN runStrategies(c2, c.k + 1)

\* cacheAfter that keeps an entry that is already there
cacheAfterKeepFirst(n, c) ==
  IF c.pc = "returned" /\ c.source = "evaluated" /\ config.cache
     /\ generateHash(c.entity) \notin DOMAIN cache
  THEN Put(cache, generateHash(c.entity),
           [matches |-> c.trace[CHOOSE p \in 1..Len(c.trace) :
                                  c.trace[p].op = "cache.set"].arg.matches,
            timestamp |-> clock, basis |-> c.basis, by |-> n])
  ELSE cache

\* this.cache after the call's step: finish writes the entry
cacheAfter(n, c) ==
  IF c.pc = "returned" /\ c.source = "evaluated" /\ config.cache
  THEN Put(cache, generateHash(c.entity),
           [matches |-> c.trace[CHOOSE p \in 1..Len(c.trace) :
                                  c.trace[p].op = "cache.set"].arg.matches,
            timestamp |-> clock, basis |-> c.basis, by |-> n])
  ELSE cache

InitDedup ==
  /\ EngineIdle /\ ParamsIdle /\ LimiterIdle
  /\ config \in Configs
  /\ cache = EmptyMap
  /\ \E k \in DOMAIN StoreStates : store = StoreStates[k]
  /\ clock = 0
  /\ calls = <<>>

findMatches(entity) ==
  /\ LET n == Len(calls) + 1
         c == startCall(NewCall(entity))
     IN /\ calls' = Append(calls, c)
        /\ cache' = cacheAfter(n, c)
  /\ UNCHANGED <<config, store, clock, engineVars, paramVars, limiterVars>>

StrategySettles(n) ==
  /\ calls[n].pc = "awaiting"
  /\ LET c == strategySettles(calls[n])
     IN /\ calls' = [calls EXCEPT ![n] = c]
        /\ cache' = cacheAfter(n, c)
  /\ UNCHANGED <<config, store, clock, engineVars, paramVars, limiterVars>>

\* the store's content changes, or it goes down or comes back
StoreChanges(k) ==
  /\ store = StoreStates[k]
  /\ store' = StoreStates[k + 1]
  /\ UNCHANGED <<config, cache, clock, calls, engineVars, paramVars, limiterVars>>

\* half the cache's TTL passes
TimePasses ==
  /\ clock' = clock + CacheTtlMs \div 2
  /\ UNCHANGED <<config, cache, store, calls, engineVars, paramVars, limiterVars>>

NextDedup ==
  \/ /\ Len(calls) < MaxCalls
     /\ \E entity \in EntityInputs : findMatches(entity)
  \/ \E n \in DOMAIN calls : StrategySettles(n)
  \/ \E k \in 1..(Len(StoreStates) - 1) : StoreChanges(k)
  \/ /\ clock < MaxClockSteps * (CacheTtlMs \div 2)
     /\ TimePasses

SpecDedup == InitDedup /\ [][NextDedup]_vars

(***************************************************************************)
(* RateLimiter: wait() queues the caller's resolver and starts            *)
(* processQueue, whose loop releases the head of the queue once interval  *)
(* ms have passed since lastCall, sleeping in between.  A waiter is the    *)
(* place of its wait() call among the calls made.                          *)
(***************************************************************************)
MaxWaits == 4          \* wait() calls
MaxLimiterClock == 2000  \* the clock up to which calls are made
LimiterStart == 1000   \* Date.now() when the limiter is constructed
LimiterTick == 250     \* what the clock advances by

\* requests per second: the constructor's default, and the integrations'
Rates == {1, 2}
intervalOf(requestsPerSecond) == 1000 \div requestsPerSecond

Max(a, b) == IF a >= b THEN a ELSE b

\* a release: the waiter, the time, and the interval it was made under (the
\* smaller of the interval the delay was computed with and the current one)
Release(w, interval) == [waiter |-> w, at |-> clock, interval |-> interval]

\* processQueue's while loop from its test on, up to its next sleep or its
\* end: the limiter after it, the waiters it released, and whether it
\* sleeps and until when
RECURSIVE whileLoop(_, _)
whileLoop(l, released) ==
  IF Len(l.queue) = 0
  THEN [limiter |-> [l EXCEPT !.processing = FALSE], released |-> released,
        sleeping |-> FALSE, wakeAt |-> 0, interval |-> 0]
  ELSE LET timeSinceLastCall == clock - l.lastCall
           delay == Max(0, l.interval - timeSinceLastCall)
       IN IF delay > 0
          THEN [limiter |-> l, released |-> released,
                sleeping |-> TRUE, wakeAt |-> clock + delay,
                interval |-> l.interval]
          ELSE whileLoop([l EXCEPT !.lastCall = clock, !.queue = Tail(@)],
                         Append(released, Release(Head(l.queue), l.interval)))

\* processQueue after its sleep: lastCall, shift, resolve if there is a
\* resolver, and the loop again
afterSleep(l, sleptWith) ==
  IF Len(l.queue) = 0
  THEN whileLoop([l EXCEPT !.lastCall = clock], <<>>)
  ELSE whileLoop([l EXCEPT !.lastCall = clock, !.queue = Tail(@)],
                 <<Release(Head(l.queue), Min(sleptWith, l.interval))>>)

\* processQueue from its call
processQueue(l) ==
  IF l.processing \/ Len(l.queue) = 0
  THEN [limiter |-> l, released |-> <<>>, sleeping |-> FALSE, wakeAt |-> 0,
        interval |-> 0]
  ELSE whileLoop([l EXCEPT !.processing = TRUE], <<>>)

\* the waiters of a sequence of releases
Waiters(released) == {released[k].waiter : k \in DOMAIN released}

\* the promises of the released waiters resolve
resolved(ws, released) ==
  [w \in DOMAIN ws |-> IF w \in Waiters(released) THEN "resolved" ELSE ws[w]]

InitLimiter ==
  /\ EngineIdle /\ ParamsIdle
  /\ config = [enabled |-> FALSE, cache |-> FALSE, confidence |-> 0,
               strategies |-> <<>>]
  /\ cache = EmptyMap
  /\ store = [entities |-> {}, down |-> FALSE]
  /\ calls = <<>>
  /\ clock = LimiterStart
  /\ \E requestsPerSecond \in Rates :
       limiter = [interval |-> intervalOf(requestsPerSecond), lastCall |-> 0,
                  queue |-> <<>>, processing |-> FALSE]
  /\ loops = <<>>
  /\ waits = <<>>
  /\ releases = <<>>

limiterFrame == UNCHANGED <<engineVars, paramVars, config, cache, store, calls>>

\* wait(): push the resolver, call processQueue
wait ==
  /\ LET w == Len(waits) + 1
         run == processQueue([limiter EXCEPT !.queue = Append(@, w)])
     IN /\ limiter' = run.limiter
        /\ releases' = releases \o run.released
        /\ waits' = resolved(Append(waits, "pending"), run.released)
        /\ loops' = IF run.sleeping
                     THEN Append(loops, [pc |-> "sleeping", wakeAt |-> run.wakeAt,
                                         interval |-> run.interval])
                     ELSE loops
  /\ UNCHANGED clock
  /\ limiterFrame

\* the sleep of a processQueue activation ends
LoopWakes(k) ==
  /\ loops[k].pc = "sleeping"
  /\ clock >= loops[k].wakeAt
  /\ LET run == afterSleep(limiter, loops[k].interval)
     IN /\ limiter' = run.limiter
        /\ releases' = releases \o run.released
        /\ waits' = resolved(waits, run.released)
        /\ loops' = [loops EXCEPT ![k] =
                       IF run.sleeping
                       THEN [pc |-> "sleeping", wakeAt |-> run.wakeAt,
                             interval |-> run.interval]
                       ELSE [pc |-> "done", wakeAt |-> 0, interval |-> 0]]
  /\ UNCHANGED clock
  /\ limiterFrame

reset ==
  /\ limiter' = [limiter EXCEPT !.lastCall = 0, !.queue = <<>>,
                                !.processing = FALSE]
  /\ UNCHANGED <<loops, waits, releases, clock>>
  /\ limiterFrame

setRate(requestsPerSecond) ==
  /\ limiter' = [limiter EXCEPT !.interval = intervalOf(requestsPerSecond)]
  /\ UNCHANGED <<loops, waits, releases, clock>>
  /\ limiterFrame

\* the activations that are asleep
Sleeping == {k \in DOMAIN loops : loops[k].pc = "sleeping"}

\* the clock advances, up to the next timer that is due; past
\* MaxLimiterClock, where no call is made any more, for the sleeps only
LimiterTimePasses ==
  /\ clock <= MaxLimiterClock \/ Sleeping # {}
  /\ \A k \in Sleeping : clock < loops[k].wakeAt
  /\ clock' = clock + LimiterTick
  /\ UNCHANGED <<limiter, loops, waits, releases>>
  /\ limiterFrame

NextLimiter ==
  \/ /\ Len(waits) < MaxWaits /\ clock <= MaxLimiterClock
     /\ wait
  \/ \E k \in DOMAIN loops : LoopWakes(k)
  \/ /\ clock <= MaxLimiterClock
     /\ reset
  \/ /\ clock <= MaxLimiterClock
     /\ \E requestsPerSecond \in Rates \ {1000 \div limiter.interval} :
          setRate(requestsPerSecond)
  \/ LimiterTimePasses

\* time passes, and a timer that is due fires
LimiterTimersFire ==
  /\ WF_vars(LimiterTimePasses)
  /\ \A k \in 1..MaxWaits : WF_vars(k \in DOMAIN loops /\ LoopWakes(k))

SpecLimiter == InitLimiter /\ [][NextLimiter]_vars /\ LimiterTimersFire

(***************************************************************************)
(* Reading an Execution's history.                                         *)
(***************************************************************************)
Execs == {executions[id] : id \in DOMAIN executions}

\* positions of the log entries of kind k
At(e, k) == {p \in 1..Len(e.log) : e.log[p].k = k}

\* positions of the entries of kind k that a workflow step (not the error
\* handler) with index s made
StepAt(e, k, s) == {p \in At(e, k) : e.log[p].step = s /\ ~e.log[p].h}

\* the entries of kind k, in order
Entries(e, k) == SelectSeq(e.log, LAMBDA x : x.k = k)

The(S) == CHOOSE x \in S : TRUE
Last(S) == CHOOSE x \in S : \A y \in S : y <= x

NoConditions(e) == \A k \in 1..Len(e.def.steps) : e.def.steps[k].condition = ""

Resolves(step) == hasMethod(integrationOf(step.action), methodOf(step.action))

(***************************************************************************)
(* C1: when a workflow with N steps and no conditions is executed and     *)
(* every step's dispatch succeeds, execute() returns the Execution with   *)
(* status completed and exactly N results, result k being what the        *)
(* dispatch of step k returned, and has emitted exactly N                 *)
(* workflow.progress events, with step indices 0..N-1 in that order,      *)
(* totalSteps N and the matching result.  An execution of such a workflow *)
(* raises only after a dispatch failed or an action did not resolve.      *)
(***************************************************************************)
C1_ResultsMatchProgress ==
  \A e \in Execs :
    NoConditions(e) =>
      LET N == Len(e.def.steps)
          progress == Entries(e, "emit.progress")
      IN /\ e.pc = "returned" =>
              /\ e.status = "completed"
              /\ Len(e.results) = N
              /\ Len(progress) = N
              /\ \A k \in 1..N :
                    /\ progress[k].step = k - 1
                    /\ progress[k].n = N
                    /\ progress[k].v = e.results[k]
                    /\ \E p \in StepAt(e, "ok", k - 1) :
                          /\ e.log[p].v = e.results[k]
                          /\ StepAt(e, "ok", k - 1) = {p}
         /\ e.pc = "raised" =>
              \/ At(e, "fail") # {}
              \/ \E k \in 1..N : ~Resolves(e.def.steps[k])

C1_Witness ==
  \E e \in Execs :
    /\ NoConditions(e) /\ Len(e.def.steps) = 2 /\ e.pc = "returned"
    /\ At(e, "fail") = {}
    /\ e.results = <<"resultA", "resultB">>

(***************************************************************************)
(* C2: within one Execution the steps are dispatched in registration      *)
(* order.  When an attempt of a step is dispatched, every earlier attempt *)
(* has resolved (succeeded or failed), every earlier attempt belongs to   *)
(* the same step (with a smaller attempt number) or to an earlier step    *)
(* that has succeeded, and no step is dispatched after a step used up its *)
(* attempts or after the Execution was marked failed.                      *)
(***************************************************************************)
C2_StepsInRegistrationOrder ==
  \A e \in Execs :
    \A p \in At(e, "dispatch") :
      ~e.log[p].h =>
        /\ e.log[p].step < Len(e.def.steps)
        /\ \A q \in At(e, "dispatch") :
             (q < p /\ ~e.log[q].h) =>
               /\ e.log[q].step <= e.log[p].step
               /\ \E r \in At(e, "ok") \cup At(e, "fail") :
                    /\ q < r /\ r < p /\ ~e.log[r].h
                    /\ e.log[r].step = e.log[q].step
                    /\ e.log[r].n = e.log[q].n
               /\ e.log[q].step < e.log[p].step =>
                    \E r \in StepAt(e, "ok", e.log[q].step) : q <= r /\ r < p
               /\ e.log[q].step = e.log[p].step => e.log[q].n < e.log[p].n
        /\ \A f \in At(e, "status.failed") : p < f
        /\ \A f \in At(e, "fail") :
             (~e.log[f].h /\ e.log[f].n = e.def.retryPolicy.maxAttempts - 1) => p < f

C2_Witness ==
  \E e \in Execs :
    /\ e.pc = "raised" /\ Len(e.def.steps) = 2 /\ e.currentStep = 1
    /\ StepAt(e, "fail", 0) # {} /\ StepAt(e, "ok", 0) # {}
    /\ Cardinality(StepAt(e, "dispatch", 1)) >= 2

(***************************************************************************)
(* C3: a step whose every attempt fails (by a collaborator error or by    *)
(* the step timeout) under a retry policy with maxAttempts = M is         *)
(* dispatched exactly M times, each dispatch followed by its failure, and *)
(* the engine sleeps after each failure but the last, M-1 times; the last *)
(* failure is followed at once by the Execution being marked failed.      *)
(* Under the default policy (3, exponential, 1000, 30000) the sleeps are  *)
(* 1000 then 2000.  No step is ever dispatched more than M times.         *)
(***************************************************************************)
C3_ExactlyMaxAttempts ==
  \A e \in Execs :
    \A s \in 0..(Len(e.def.steps) - 1) :
      LET M == e.def.retryPolicy.maxAttempts
          D == StepAt(e, "dispatch", s)
          F == StepAt(e, "fail", s)
          S == StepAt(e, "sleep", s)
      IN /\ Cardinality(D) <= M
         /\ Cardinality(S) <= M - 1
         /\ (Cardinality(F) = M \/ (F # {} /\ e.status = "failed" /\ e.currentStep = s)) =>
              LET first == CHOOSE p \in D : \A q \in D : p <= q
              IN /\ Cardinality(D) = M /\ Cardinality(F) = M /\ Cardinality(S) = M - 1
                 /\ StepAt(e, "ok", s) = {}
                 /\ \A j \in 0..(M - 1) :
                      /\ first + 3 * j \in D /\ e.log[first + 3 * j].n = j
                      /\ first + 3 * j + 1 \in F /\ e.log[first + 3 * j + 1].n = j
                      /\ j < M - 1 => first + 3 * j + 2 \in S
                 /\ first + 3 * (M - 1) + 2 \in At(e, "status.failed")
                 /\ e.status = "failed"
                 /\ e.def.retryPolicy = getDefaultRetryPolicy =>
                      /\ e.log[first + 2].n = 1000
                      /\ e.log[first + 5].n = 2000

C3_Witness ==
  \E e \in Execs :
    /\ e.pc = "raised" /\ e.def.retryPolicy = getDefaultRetryPolicy
    /\ Len(e.def.steps) = 1
    /\ Cardinality(StepAt(e, "fail", 0)) = 3
    /\ \E p, q \in StepAt(e, "fail", 0) :
         e.log[p].v = StepTimeoutError /\ e.log[q].v = "ECONNRESET"
    /\ Entries(e, "sleep")[1].n = 1000 /\ Entries(e, "sleep")[2].n = 2000

(***************************************************************************)
(* C4: when a step fails for good, the Execution is marked failed, then   *)
(* the error handler (if the workflow has one) is invoked, then           *)
(* workflow.error is emitted with the execution id and the error, then    *)
(* the error is raised to the caller, which ends execute(); each happens  *)
(* exactly once and in this order, everything the handler does lies       *)
(* between its invocation and workflow.error, and a failed Execution      *)
(* never emits workflow.completed nor returns.                             *)
(***************************************************************************)
C4_FailurePathInOrder ==
  \A e \in Execs :
    /\ Cardinality(At(e, "status.failed")) <= 1
    /\ Cardinality(At(e, "handler.invoke")) <= 1
    /\ Cardinality(At(e, "emit.error")) <= 1
    /\ Cardinality(At(e, "raise")) <= 1
    /\ (e.status = "failed") = (At(e, "status.failed") # {})
    /\ e.status = "failed" =>
         /\ At(e, "emit.completed") = {} /\ At(e, "return") = {}
         /\ e.pc = "raised" \/ (e.inHandler /\ e.pc \in {"inflight", "sleeping"})
    /\ e.pc = "raised" =>
         /\ Cardinality(At(e, "status.failed")) = 1
         /\ Cardinality(At(e, "emit.error")) = 1
         /\ Cardinality(At(e, "raise")) = 1
         /\ Cardinality(At(e, "handler.invoke")) =
              (IF e.def.errorHandler.present THEN 1 ELSE 0)
         /\ LET f == The(At(e, "status.failed"))
                ev == The(At(e, "emit.error"))
                r == The(At(e, "raise"))
            IN /\ f < ev /\ ev + 1 = r /\ r = Len(e.log)
               /\ \A h \in At(e, "handler.invoke") : h = f + 1
               /\ \A p \in 1..Len(e.log) : e.log[p].h => (f < p /\ p < ev)
               /\ e.log[ev].n = e.id
               /\ e.log[ev].v = e.log[f].v
               /\ e.log[r].v = e.log[f].v

C4_Witness ==
  \E e \in Execs :
    /\ e.pc = "raised" /\ e.def.errorHandler.present
    /\ \E p \in At(e, "fail") :
         ~e.log[p].h /\ e.log[p].n = e.def.retryPolicy.maxAttempts - 1
    /\ \E p \in At(e, "ok") : e.log[p].h

(***************************************************************************)
(* C5: when a step fails after dispatch attempts, the error raised to the *)
(* caller of execute() is the error of the step's last attempt, and the   *)
(* same error is the Execution's error and the one workflow.error carries.*)
(***************************************************************************)
C5_LastAttemptErrorSurfaces ==
  \A e \in Execs :
    (e.status = "failed" /\ StepAt(e, "fail", e.currentStep) # {}) =>
      LET err == e.log[Last(StepAt(e, "fail", e.currentStep))].v
      IN /\ e.error = err
         /\ \A p \in At(e, "emit.error") \cup At(e, "raise") : e.log[p].v = err
         /\ e.pc = "raised" => (At(e, "emit.error") # {} /\ At(e, "raise") # {})

C5_Witness ==
  \E e \in Execs :
    /\ e.pc = "raised" /\ e.error = StepTimeoutError
    /\ \E p \in StepAt(e, "fail", e.currentStep) : e.log[p].v = "ECONNRESET"
    /\ e.log[Len(e.log)].v = StepTimeoutError

(***************************************************************************)
(* C6: a failure of the error handler is not propagated.  When the        *)
(* handler fails, workflow.error is still emitted and execute() still     *)
(* raises, both with the step's error, and the Execution's error is the   *)
(* step's error during and after the handler's run.                        *)
(***************************************************************************)
C6_HandlerFailureNotPropagated ==
  \A e \in Execs :
    /\ e.status = "failed" => e.error = e.log[The(At(e, "status.failed"))].v
    /\ At(e, "handler.failed") # {} =>
         LET original == e.log[The(At(e, "status.failed"))].v
         IN /\ e.pc = "raised"
            /\ \E p \in At(e, "emit.error") : e.log[p].v = original
            /\ \E p \in At(e, "raise") : e.log[p].v = original
            /\ e.error = original

C6_Witness ==
  \E e \in Execs :
    /\ e.pc = "raised" /\ e.error = "ECONNRESET"
    /\ \E p \in At(e, "handler.failed") : e.log[p].v = StepTimeoutError
    /\ Cardinality({p \in At(e, "fail") : e.log[p].h}) = 3

(***************************************************************************)
(* C7: execute(name) for a name that is not registered throws the         *)
(* workflow-not-found error and changes nothing in the engine: no         *)
(* Execution is created or retained, no id is consumed, and (events and   *)
(* dispatches being recorded in the Executions) nothing is emitted or     *)
(* dispatched.  An Execution is only ever created for a registered name.  *)
(***************************************************************************)
C7_NotFoundChangesNothing ==
  [][/\ rejected' # rejected =>
          /\ \A name \in rejected' \ rejected : name \notin DOMAIN workflows
          /\ UNCHANGED <<workflows, executions, activeExecutions, nextId>>
     /\ \A id \in DOMAIN executions' \ DOMAIN executions :
          executions'[id].workflow \in DOMAIN workflows
     /\ activeExecutions' \subseteq DOMAIN executions']_vars

C7_Witness ==
  /\ rejected # {}
  /\ DOMAIN workflows # {}
  /\ \E e \in Execs : e.pc = "inflight"
  /\ activeExecutions = DOMAIN executions

\* results as it was when the loop reached step s: one entry per
\* workflow.progress event of an earlier step
ResultsBefore(e, s) ==
  LET earlier == SelectSeq(e.log, LAMBDA x : x.k = "emit.progress" /\ x.step < s)
  IN [k \in 1..Len(earlier) |-> earlier[k].v]

\* the condition of step s is present and evaluates, without error, to false
ConditionFalseAt(e, s) ==
  LET condition == e.def.steps[s + 1].condition
      context == [results |-> ResultsBefore(e, s)]
  IN /\ condition # ""
     /\ ~conditionThrows(condition, context)
     /\ ~conditionValue(condition, context)

(***************************************************************************)
(* C8: a step whose condition evaluates to false is skipped: it is never  *)
(* dispatched, nothing is appended to results and no workflow.progress is *)
(* emitted for it, and the execution goes on with the next step (or       *)
(* completes after the last one).  results holds one entry per            *)
(* workflow.progress event, in the same order: the results of the steps   *)
(* that ran occupy compacted indices.  Only a step with a condition is    *)
(* ever skipped.                                                           *)
(***************************************************************************)
C8_FalseConditionSkips ==
  \A e \in Execs :
    LET progress == Entries(e, "emit.progress")
    IN /\ Len(e.results) = Len(progress)
       /\ \A j \in 1..Len(progress) :
            /\ e.results[j] = progress[j].v
            /\ j > 1 => progress[j - 1].step < progress[j].step
       /\ \A p \in At(e, "skip") : e.def.steps[e.log[p].step + 1].condition # ""
       /\ \A s \in 0..(Len(e.def.steps) - 1) :
            (ConditionFalseAt(e, s) /\ s <= e.currentStep) =>
              /\ StepAt(e, "dispatch", s) = {}
              /\ StepAt(e, "ok", s) = {}
              /\ StepAt(e, "emit.progress", s) = {}
              /\ s < e.i =>
                   /\ Cardinality(StepAt(e, "skip", s)) = 1
                   /\ LET p == The(StepAt(e, "skip", s))
                      IN p < Len(e.log) =>
                           \/ e.log[p + 1].k = "emit.completed"
                           \/ e.log[p + 1].step = s + 1

C8_Witness ==
  \E e \in Execs :
    /\ e.pc = "returned" /\ Len(e.def.steps) = 2
    /\ e.def.steps[1].condition = CondFalse
    /\ StepAt(e, "skip", 0) # {}
    /\ e.results = <<"resultB">>
    /\ Entries(e, "emit.progress")[1].step = 1

(***************************************************************************)
(* C9: an error raised while evaluating a step's condition fails the      *)
(* step: the step is not skipped and the execution does not complete.     *)
(***************************************************************************)
C9_ConditionErrorFailsStep ==
  \A e \in Execs :
    \A p \in At(e, "condition.error") :
      /\ StepAt(e, "skip", e.log[p].step) = {}
      /\ e.pc # "returned"

(***************************************************************************)
(* C10: a step whose action does not resolve to a method of a registered  *)
(* integration never yields a result or a workflow.progress event; the    *)
(* loop passes it only when its own condition skips it; once it is        *)
(* reached the Execution fails, with "Integration not found" and no       *)
(* dispatch for an unknown integration, or with the TypeError of every    *)
(* attempt for an unknown method, and never completes.                     *)
(***************************************************************************)
C10_UnresolvedActionFails ==
  \A e \in Execs :
    \A s \in 0..(Len(e.def.steps) - 1) :
      LET step == e.def.steps[s + 1]
      IN ~Resolves(step) =>
           /\ StepAt(e, "ok", s) = {}
           /\ StepAt(e, "emit.progress", s) = {}
           /\ \A p \in StepAt(e, "fail", s) : e.log[p].v = NotAFunctionError
           /\ ~hasIntegration(integrationOf(step.action)) => StepAt(e, "dispatch", s) = {}
           /\ e.i > s => (step.condition # "" /\ StepAt(e, "skip", s) # {})
           /\ step.condition = "" => e.pc # "returned"
           /\ (step.condition = "" /\ e.currentStep = s /\ e.i = s /\ e.pc # "loop") =>
                \/ /\ e.status = "running" /\ e.pc = "sleeping"
                   /\ hasIntegration(integrationOf(step.action))
                \/ /\ e.status = "failed"
                   /\ e.error = IF hasIntegration(integrationOf(step.action))
                                THEN NotAFunctionError ELSE IntegrationNotFoundError

C10_Witness ==
  \E e \in Execs :
    /\ e.pc = "raised" /\ e.currentStep = 1 /\ Len(e.results) = 1
    /\ ~Resolves(e.def.steps[2])
    /\ e.error = NotAFunctionError
    /\ Cardinality(StepAt(e, "dispatch", 1)) = e.def.retryPolicy.maxAttempts

\* the string is exactly one token: "{{", a path without braces, "}}"
IsToken(s) ==
  /\ Len(s) >= 2 /\ s[1] = "{{" /\ s[Len(s)] = "}}"
  /\ \A k \in 2..(Len(s) - 1) : s[k] \notin {"{{", "}}"}

\* the resolution that substitutes whole-string tokens only
RECURSIVE WholeTokensOnly(_, _)
WholeTokensOnly(v, execution) ==
  CASE v.t = "string" ->
         IF IsToken(v.s) THEN getValueByPath(execution, slice(v.s)) ELSE v
    [] v.t = "object" ->
         Obj([key \in DOMAIN v.f |-> WholeTokensOnly(v.f[key], execution)])
    [] v.t = "array" ->
         Arr([k \in 1..Len(v.f) |-> WholeTokensOnly(v.f[k], execution)])
    [] OTHER -> v

(***************************************************************************)
(* C11: parameter resolution substitutes only the strings that are        *)
(* exactly one token {{path}}, by the value at the path; every other      *)
(* string of the parameters is handed to the action unchanged, also a     *)
(* string that starts with "{{" and ends with "}}" but holds several      *)
(* tokens or other text.                                                   *)
(***************************************************************************)
C11_OnlyWholeTokensSubstituted ==
  (prepared.pc = "dispatched" /\ prepared.params.t = "object") =>
    prepared.arg = WholeTokensOnly(jsonClone(prepared.params), prepared.execution)

\* results[n - 1].id of the Execution object, undefined when there is none
ResultId(execution, n) ==
  LET results == execution.f.results.f
  IN IF n <= Len(results) /\ results[n].t = "object" /\ "id" \in DOMAIN results[n].f
     THEN results[n].f.id ELSE Undefined

\* params.vendor.name of the Execution object, undefined when there is none
VendorName(execution) ==
  LET params == execution.f.params
  IN IF params.t = "object" /\ "vendor" \in DOMAIN params.f
     THEN params.f.vendor.f.name ELSE Undefined

(***************************************************************************)
(* C12: parameter resolution never throws on a missing path and yields    *)
(* the value the context holds: {{results.0.id}} yields results[0].id     *)
(* ("X" when that is "X"), and a path with a missing segment (an index    *)
(* past the end of results, a property of a null result, a segment below  *)
(* absent params or below a string) yields undefined; in every case the   *)
(* step goes on to its dispatch, with the resolved parameters.             *)
(***************************************************************************)
C12_MissingPathResolvesToAbsent ==
  /\ prepared.pc # "threw"
  /\ prepared.pc = "dispatched" =>
       /\ ~throws(prepared.arg)
       /\ prepared.params.t = "undefined" => prepared.arg = Obj(EmptyMap)
       /\ (prepared.params.t = "object" /\ "a" \in DOMAIN prepared.params.f) =>
            LET template == prepared.params.f.a.s
                value == prepared.arg.f.a
            IN /\ template = TokenResultId => value = ResultId(prepared.execution, 1)
               /\ template = TokenSecondResultId => value = ResultId(prepared.execution, 2)
               /\ template = TokenVendorName => value = VendorName(prepared.execution)
               /\ template = TokenBelowString => value = Undefined
               /\ template = TokenEmptyPath => value = Undefined
               /\ (template = TokenResultId
                     /\ Len(prepared.execution.f.results.f) >= 1
                     /\ prepared.execution.f.results.f[1] = Obj([id |-> Str(<<"X">>)])) =>
                    value = Str(<<"X">>)

C12_Witness ==
  /\ prepared.pc = "dispatched"
  /\ prepared.params = Obj([a |-> Str(TokenSecondResultId)])
  /\ prepared.execution.f.results.f = <<Obj([id |-> Str(<<"X">>)])>>
  /\ prepared.execution.f.params = Undefined
  /\ prepared.arg = Obj([a |-> Undefined])

\* the running cron tasks created for a name
ActiveBindings(name) ==
  {j \in DOMAIN jobs : jobs[j].name = name /\ jobs[j].running}

(***************************************************************************)
(* C13: after any sequence of register calls the scheduler holds at most  *)
(* one running cron task per workflow name, and a running task of a name  *)
(* has the schedule of the definition registered last under that name: a  *)
(* definition without a schedule leaves no running task.                   *)
(***************************************************************************)
C13_OneBindingOfLatestDefinition ==
  \A name \in DOMAIN workflows :
    /\ Cardinality(ActiveBindings(name)) <= 1
    /\ \A j \in ActiveBindings(name) : jobs[j].schedule = workflows[name].schedule

(***************************************************************************)
(* C14: a tick of a running cron task never waits.  In every state, also  *)
(* while Executions started by earlier ticks are blocked in a dispatch, a *)
(* timeout race or a backoff sleep, each running task (of the same or of  *)
(* another workflow) can fire, and its tick starts one new Execution of   *)
(* the task's workflow with no params and leaves every other Execution    *)
(* and every cron task as it is.  A task stops running only when it is    *)
(* replaced by a newer task of its name or when stopAll dropped it, not   *)
(* because an Execution failed: while a task is its name's binding it     *)
(* runs.                                                                   *)
(***************************************************************************)
C14_TicksDoNotWait ==
  \A job \in DOMAIN jobs :
    /\ jobs[job].running =>
         \A now \in Instants, random \in RandomDigits :
           ENABLED (/\ Tick(job, now, random)
                    /\ executions'[nextId].workflow = jobs[job].name
                    /\ executions'[nextId].params = Undefined
                    /\ executions'[nextId].status = "running"
                    /\ \A o \in DOMAIN executions : executions'[o] = executions[o]
                    /\ UNCHANGED <<jobs, scheduledJobs>>)
    /\ ~jobs[job].running =>
         \/ \E later \in DOMAIN jobs : later > job /\ jobs[later].name = jobs[job].name
         \/ jobs[job].name \notin DOMAIN scheduledJobs
    /\ (jobs[job].name \in DOMAIN scheduledJobs
          /\ scheduledJobs[jobs[job].name] = job) => jobs[job].running

C14_Witness ==
  /\ DOMAIN executions = {1, 2}
  /\ executions[1].workflow = executions[2].workflow
  /\ executions[1].params = Undefined /\ executions[2].params = Undefined
  /\ executions[1].pc = "sleeping"
  /\ executions[2].pc = "raised"
  /\ \E job \in DOMAIN jobs :
       jobs[job].running /\ jobs[job].name = executions[1].workflow

\* an Execution the engine has not discarded yet: it has not ended, or the
\* timer that deletes it is pending
Live(o) ==
  executions[o].pc \notin {"returned", "raised"} \/ executions[o].cleanupTimer

(***************************************************************************)
(* C15: concurrent execute() calls, for the same or different names, run  *)
(* independently: every Execution the engine has not discarded is held in *)
(* activeExecutions under an id that no other such Execution has, so that *)
(* none replaces, or is deleted with, another.                             *)
(***************************************************************************)
C15_ConcurrentExecutionsDistinct ==
  \A o \in DOMAIN executions :
    Live(o) =>
      /\ o \in activeExecutions
      /\ \A p \in DOMAIN executions \ {o} :
           Live(p) => executions[p].id # executions[o].id

(***************************************************************************)
(* C16: in every Execution currentStep never decreases, and once it has   *)
(* advanced past an index no further dispatch of that step is made: the   *)
(* step indices of the history (each the value of currentStep when the    *)
(* entry was made) never decrease, the last one is the present            *)
(* currentStep, every dispatch of a workflow step is a dispatch of the    *)
(* step at currentStep, and the loop index is never behind currentStep.    *)
(***************************************************************************)
C16_CurrentStepOnlyAdvances ==
  \A e \in Execs :
    /\ \A p \in 1..(Len(e.log) - 1) : e.log[p].step <= e.log[p + 1].step
    /\ e.log[Len(e.log)].step = e.currentStep
    /\ e.currentStep <= e.i /\ e.i <= e.currentStep + 1
    /\ (e.pc \in {"inflight", "sleeping"} /\ ~e.inHandler) => e.i = e.currentStep
    /\ \A p \in At(e, "dispatch") :
         \A q \in 1..Len(e.log) : e.log[q].step > e.log[p].step => p < q

C16_Witness ==
  \E e \in Execs :
    /\ e.pc = "returned" /\ Len(e.def.steps) = 2 /\ e.currentStep = 1
    /\ StepAt(e, "fail", 0) # {} /\ StepAt(e, "ok", 0) # {}
    /\ StepAt(e, "fail", 1) # {} /\ StepAt(e, "ok", 1) # {}

(***************************************************************************)
(* Reading a findMatches call's history.                                   *)
(***************************************************************************)
Calls == {calls[n] : n \in DOMAIN calls}

\* the arguments of the call's operations of one kind, in order
Ops(c, op) ==
  LET made == SelectSeq(c.trace, LAMBDA o : o.op = op)
  IN [k \in 1..Len(made) |-> made[k].arg]

\* the strategies named by a sequence of operations
Names(ops) == [k \in DOMAIN ops |-> ops[k].strategy]

\* the place of a store state in the store's history
IndexOf(state) == CHOOSE k \in DOMAIN StoreStates : StoreStates[k] = state

\* the call's result rests only on what the store held during the call
Fresh(c) == \A b \in c.basis : IndexOf(c.startStore) <= IndexOf(b)

\* the list findMatches makes of the matches its strategies found
Filtered(c) ==
  SelectSeq(sortByConfidence(deduplicateMatches(c.matches)),
            LAMBDA m : m.confidence >= config.confidence)

\* C17: when deduplication is disabled by configuration, every findMatches
\* call returns an empty list at once (no await, so within its own step),
\* invokes no strategy, makes no operation on the cache, which stays
\* empty, and emits no duplicate.detected event.
C17_DisabledReturnsEmptyAtOnce ==
  ~config.enabled =>
    /\ cache = EmptyMap
    /\ \A c \in Calls :
         /\ c.pc = "returned" /\ c.result = <<>> /\ c.endClock = c.startClock
         /\ c.trace = <<>> /\ c.matches = <<>> /\ c.basis = {}

\* a disabled service was asked twice while the store held an exact duplicate
C17_Witness ==
  /\ ~config.enabled /\ config.cache /\ Len(calls) = 2
  /\ \A c \in Calls : c.pc = "returned" /\ c.startStore.entities # {}

\* C18: findMatches never returns a stale cache entry.  A call that finds
\* the entry of its entity's hash older than the TTL does not return it:
\* it runs every configured strategy in order, returns the list made of
\* what they found in the store during the call, and leaves an entry
\* with a new timestamp, which holds its result unless a later call has
\* replaced it.  A call that does return an entry found it younger than
\* the TTL.
C18_NoStaleEntryReturned ==
  \A n \in DOMAIN calls :
    LET c == calls[n]
        entityHash == generateHash(c.entity)
    IN /\ c.source = "cache" => c.entryAge >= 0 /\ c.entryAge < CacheTtlMs
       /\ (config.enabled /\ config.cache /\ c.entryAge > CacheTtlMs) =>
            /\ c.source # "cache"
            /\ c.pc = "returned" =>
                 /\ c.source = "evaluated"
                 /\ Names(Ops(c, "strategy")) = config.strategies
                 /\ c.result = Filtered(c) /\ Fresh(c)
                 /\ entityHash \in DOMAIN cache
                 /\ cache[entityHash].timestamp >= c.endClock
                 /\ cache[entityHash].timestamp > c.startClock - c.entryAge
                 /\ cache[entityHash].by = n =>
                      /\ cache[entityHash].matches = c.result
                      /\ cache[entityHash].timestamp = c.endClock

\* a call found an entry older than the TTL, holding no match, and returned
\* the match the store held by then
C18_Witness ==
  \E n \in DOMAIN calls :
    /\ config.cache /\ calls[n].entryAge > CacheTtlMs
    /\ calls[n].pc = "returned" /\ Len(calls[n].result) = 1
    /\ calls[1].result = <<>> /\ cache[generateHash(calls[n].entity)].by = n

\* C19: findMatches is deterministic for a fixed entity and a fixed store
\* state.  Under every configuration, two calls for the same entity whose
\* results rest on the same single store state (or on none) return the
\* same list in the same order, whether a result was evaluated or taken
\* from the cache; and a call that finds its entry expired evaluates
\* again, and its result rests only on what the store held during the
\* call.
C19_DeterministicForFixedStore ==
  /\ \A c1, c2 \in Calls :
       (/\ c1.pc = "returned" /\ c2.pc = "returned"
        /\ c1.entity = c2.entity
        /\ c1.basis = c2.basis /\ Cardinality(c1.basis) <= 1)
       => c1.result = c2.result
  /\ \A c \in Calls :
       (c.pc = "returned" /\ c.entryAge >= CacheTtlMs) =>
         /\ config.enabled => c.source = "evaluated"
         /\ \A b \in c.basis :
              IndexOf(c.startStore) <= IndexOf(b) /\ IndexOf(b) <= IndexOf(store)

\* two calls for one entity, the second answered from the cache within
\* the TTL, while the store held a candidate below the threshold; and a
\* call that evaluated again after the expiry
C19_Witness ==
  \/ /\ Len(calls) = 2 /\ calls[1].entity = calls[2].entity
     /\ calls[1].source = "evaluated" /\ calls[2].source = "cache"
     /\ calls[2].startClock > calls[1].endClock
     /\ Len(calls[1].matches) > Len(calls[1].result)
     /\ Len(calls[2].result) = 1
  \/ /\ Len(calls) = 2 /\ calls[1].entity = calls[2].entity
     /\ calls[2].entryAge >= CacheTtlMs /\ calls[2].pc = "returned"
     /\ calls[2].result # calls[1].result

\* C20: the same entity, without ids, is submitted twice in immediate
\* succession, the first call having returned before the second starts;
\* the first call found the store empty, and from before the second call
\* on the store holds one entity of the same name.  Then the first call
\* returned an empty list and the second returns exactly one match, of
\* confidence 1.0.
C20_SecondCallFindsNewEntity ==
  \A n \in DOMAIN calls :
    (/\ n + 1 \in DOMAIN calls
     /\ config.enabled
     /\ calls[n].entity = calls[n + 1].entity
     /\ calls[n].entity.pwEntityId = "" /\ calls[n].entity.sfCustomerId = ""
     /\ n \in calls[n + 1].after
     /\ calls[n + 1].pc = "returned"
     /\ calls[n + 1].startClock = calls[n].endClock
     /\ calls[n].basis = {StoreStates[1]}
     /\ calls[n + 1].startStore = StoreStates[2] /\ store = StoreStates[2])
    => /\ calls[n].result = <<>>
       /\ Len(calls[n + 1].result) = 1
       /\ calls[n + 1].result[1].confidence = 100

\* the matches a list holds
Held(matches) == {matches[k] : k \in DOMAIN matches}

\* the place of an id's first match among the matches the strategies found
FirstPlace(c, id) ==
  CHOOSE k \in DOMAIN c.matches :
    c.matches[k].id = id /\ \A j \in 1..(k - 1) : c.matches[j].id # id

\* the first match of each id among the matches the strategies found
FirstSeen(c) == {c.matches[FirstPlace(c, c.matches[k].id)] : k \in DOMAIN c.matches}

\* the calls that have returned, and those of them that ran the strategies
Returned == {c \in Calls : c.pc = "returned"}
Evaluated == {c \in Returned : c.source = "evaluated"}

C22_ExactlyThoseAboveThreshold ==
  /\ \A c \in Returned : \A k \in DOMAIN c.result :
       c.result[k].confidence >= config.confidence
  /\ \A c \in Evaluated :
       Held(c.result) = {m \in FirstSeen(c) : m.confidence >= config.confidence}

\* a list taken from the cache, its evaluation having found a match at the
\* threshold, which it holds, and one below it
C22_Witness ==
  \E c \in Returned : \E d \in Evaluated :
    /\ c.source = "cache" /\ c.entity = d.entity /\ c.result = d.result
    /\ \E k \in DOMAIN c.result : c.result[k].confidence = config.confidence
    /\ \E k \in DOMAIN d.matches : d.matches[k].confidence < config.confidence

\* C23: no id appears twice in a returned list, and the match a call that
\* ran the strategies returns for an id is the first one found for it, in
\* the order of the configured strategies and of each strategy's result,
\* with that match's confidence and strategy name.
C23_FirstSeenKept ==
  /\ \A c \in Returned : \A k, l \in DOMAIN c.result :
       c.result[k].id = c.result[l].id => k = l
  /\ \A c \in Evaluated : \A k \in DOMAIN c.result :
       c.result[k] = c.matches[FirstPlace(c, c.result[k].id)]

\* a returned match of a lower confidence than a later match of the same
\* id, found by another strategy
C23_Witness ==
  \E c \in Evaluated : \E k \in DOMAIN c.result : \E l \in DOMAIN c.matches :
    /\ c.matches[l].id = c.result[k].id
    /\ c.matches[l].confidence > c.result[k].confidence
    /\ c.matches[l].type # c.result[k].type

\* the matches of a sequence of pushes, in order
RECURSIVE Pushed(_)
Pushed(pushes) ==
  IF pushes = <<>> THEN <<>> ELSE Head(pushes).matches \o Pushed(Tail(pushes))

\* C24: a failure inside a strategy does not leave findMatches and does
\* not stop the other strategies.  A call is awaiting a strategy or has
\* returned; a call that ran the strategies invoked every configured
\* strategy, in order, each either failed (logged) or pushed its matches,
\* and its list is made of the pushed matches alone.
C24_FailingStrategyIsolated ==
  /\ \A c \in Calls : c.pc \in {"awaiting", "returned"}
  /\ \A c \in Evaluated :
       /\ Names(Ops(c, "strategy")) = config.strategies
       /\ Len(Ops(c, "logger.error")) + Len(Ops(c, "push")) = Len(config.strategies)
       /\ \A k \in DOMAIN config.strategies :
            LET failures == {f \in DOMAIN Ops(c, "logger.error") :
                               Ops(c, "logger.error")[f].strategy = config.strategies[k]}
                pushes == {p \in DOMAIN Ops(c, "push") :
                             Ops(c, "push")[p].strategy = config.strategies[k]}
            IN Cardinality(failures) + Cardinality(pushes) = 1
       /\ c.matches = Pushed(Ops(c, "push"))
       /\ c.result = Filtered(c)

\* the first strategy of a call failed and the second one's matches were
\* returned
C24_Witness ==
  \E c \in Evaluated :
    /\ Names(Ops(c, "logger.error")) = <<config.strategies[1]>>
    /\ Len(Ops(c, "push")) = 1 /\ Ops(c, "push")[1].matches # <<>>
    /\ c.result # <<>>

\* the greatest confidence of a non-empty list
MaxConfidence(matches) ==
  CHOOSE x \in {matches[k].confidence : k \in DOMAIN matches} :
    \A k \in DOMAIN matches : matches[k].confidence <= x

\* C25: a call that ran the strategies emits one duplicate.detected event
\* if its filtered list is non-empty and none if it is empty; the event
\* carries the entity, the list and the greatest confidence in it.  A
\* call that has not returned, one answered from the cache and one of a
\* disabled service emit none.
C25_OneEventIffMatches ==
  /\ \A c \in Evaluated :
       IF c.result = <<>> THEN Ops(c, "emit") = <<>>
       ELSE Ops(c, "emit") = <<[entity |-> c.entity, matches |-> c.result,
                                confidence |-> MaxConfidence(c.result)]>>
  /\ \A c \in Calls \ Evaluated : Ops(c, "emit") = <<>>

\* a call emitted the event for two matches of different confidence, a
\* second call for the same entity was answered from the cache, and
\* another call found nothing
C25_Witness ==
  /\ \E c \in Evaluated :
       /\ Len(c.result) = 2 /\ c.result[1].confidence # c.result[2].confidence
       /\ Len(Ops(c, "emit")) = 1
  /\ \E c \in Returned : c.source = "cache" /\ c.result # <<>>

\* the indices of an Execution's steps whose action is the given one
StepsWith(e, action) ==
  {t \in 0..(Len(e.def.steps) - 1) : e.def.steps[t + 1].action = action}

\* C26: a step whose action is deduplication.findMatches does not fail as
\* an unresolved action: its Execution never fails at that step with
\* 'Integration not found', and once the Execution is past the step, or
\* has returned, the step was dispatched and its result recorded.
C26_FindMatchesIsAnAction ==
  \A e \in Execs : \A t \in StepsWith(e, ActFindMatches) :
    /\ ~(e.status = "failed" /\ e.currentStep = t
         /\ e.error = IntegrationNotFoundError)
    /\ (e.currentStep > t \/ e.pc = "returned") =>
         StepAt(e, "dispatch", t) # {} /\ StepAt(e, "ok", t) # {}

\* capability.operation: two pieces around one dot, neither empty
WellFormed(action) ==
  /\ Len(split(action)) = 2
  /\ split(action)[1] # "" /\ split(action)[2] # ""

\* C27: register rejects a definition that holds a malformed action, so
\* no definition stored under a name holds one, and no Execution runs one.
C27_MalformedActionRejected ==
  /\ \A name \in DOMAIN workflows : \A k \in DOMAIN workflows[name].steps :
       WellFormed(workflows[name].steps[k].action)
  /\ \A e \in Execs : \A k \in DOMAIN e.def.steps :
       WellFormed(e.def.steps[k].action)

\* C28: a step that sets its own retries R is dispatched at most R times,
\* whatever the workflow's policy says.
C28_OwnRetriesBoundAttempts ==
  \A e \in Execs : \A t \in 0..(Len(e.def.steps) - 1) :
    e.def.steps[t + 1].retries # DefaultRetries =>
      Cardinality(StepAt(e, "dispatch", t)) <= e.def.steps[t + 1].retries

\* the delay the backoff formulas of the claim give after the failed
\* attempt with index k
FormulaDelay(k, policy) ==
  CASE policy.backoff = "fixed" -> policy.initialDelay
    [] policy.backoff = "linear" -> policy.initialDelay * k
    [] policy.backoff = "exponential" ->
         Min(policy.initialDelay * 2^k, policy.maxDelay)

\* C29: every sleep follows the failed attempt with index k, k less than
\* maxAttempts - 1, and lasts what the formula gives for k under the
\* policy the step runs under: fixed, initialDelay; linear, initialDelay
\* * k; exponential, min(initialDelay * 2^k, maxDelay).
C29_SleepFollowsFormula ==
  \A e \in Execs : \A p \in At(e, "sleep") :
    LET policy == IF e.log[p].h THEN getDefaultRetryPolicy ELSE e.def.retryPolicy
        k == e.log[p - 1].n
    IN /\ e.log[p - 1].k = "fail"
       /\ k < policy.maxAttempts - 1
       /\ e.log[p].n = FormulaDelay(k, policy)

\* C30: an Execution's end time is absent exactly while its status is
\* running, and it is there when workflow.completed is emitted.
C30_EndTimeIffTerminal ==
  \A e \in Execs :
    /\ (e.status = "running") <=> ~e.endTime
    /\ At(e, "emit.completed") # {} => e.endTime

\* positions of the entries of kind k that the error handler made
HandlerAt(e, k) == {p \in At(e, k) : e.log[p].h}

\* C32: the error handler runs as a single best-effort step: its action is
\* dispatched at most once per Execution, and a handler attempt that fails
\* or times out is followed by no sleep and no further attempt.
C32_HandlerDispatchedOnce ==
  \A e \in Execs :
    /\ Cardinality(HandlerAt(e, "dispatch")) <= 1
    /\ HandlerAt(e, "sleep") = {}
    /\ \A p \in HandlerAt(e, "fail") : e.log[p].n = 0

\* the successful dispatches of an Execution's workflow steps, in order
StepResults(e) == SelectSeq(e.log, LAMBDA x : x.k = "ok" /\ ~x.h)

\* status is what the assignments made so far say, and a terminal status was
\* assigned once and nothing was assigned after it
StatusOnlyForward(e) ==
  /\ e.status \in {"running", "completed", "failed"}
  /\ Cardinality(At(e, "status.failed")) + Cardinality(At(e, "emit.completed")) <= 1
  /\ (e.status = "failed") <=> At(e, "status.failed") # {}
  /\ (e.status = "completed") <=> At(e, "emit.completed") # {}

\* results is what the steps dispatched so far returned, in step order
ResultsAreStepResults(e) ==
  LET oks == StepResults(e)
  IN /\ e.results = [k \in 1..Len(oks) |-> oks[k].v]
     /\ \A k \in 1..Len(oks) : \A j \in 1..(k - 1) : oks[j].step < oks[k].step
     /\ e.status = "completed" =>
          \A s \in 0..(Len(e.def.steps) - 1) :
            (StepAt(e, "ok", s) = {}) <=> (StepAt(e, "skip", s) # {})
     /\ e.status = "failed" =>
          /\ \A k \in 1..Len(oks) : oks[k].step < e.currentStep
          /\ LET f == The(At(e, "status.failed"))
             IN \A p \in At(e, "ok") : ~e.log[p].h => p < f

\* C38 as stated: in every reachable state of an Execution the status has
\* only moved from running to completed or to failed, results holds the
\* results of the steps that succeeded so far in step order, a completed
\* Execution has a result for every step not skipped, a failed one has no
\* result for the failing step or a later one, the error handler leaves
\* results alone, and results.length <= currentStep + 1 <= number of steps.
C38_WithinStepCount ==
  \A e \in Execs :
    /\ StatusOnlyForward(e)
    /\ ResultsAreStepResults(e)
    /\ Len(e.results) <= e.currentStep + 1
    /\ e.currentStep + 1 <= Len(e.def.steps)

\* C38, amended: the same, with currentStep + 1 <= number of steps for a
\* definition that has steps; an Execution of a definition without steps
\* keeps currentStep 0 and no results.
C38_ExecutionConsistent ==
  \A e \in Execs :
    /\ StatusOnlyForward(e)
    /\ ResultsAreStepResults(e)
    /\ Len(e.results) <= e.currentStep + 1
    /\ Len(e.def.steps) >= 1 => e.currentStep + 1 <= Len(e.def.steps)
    /\ Len(e.def.steps) = 0 => e.currentStep = 0 /\ e.results = <<>>

C38_Witness ==
  \E e \in Execs :
    /\ e.pc = "raised" /\ e.status = "failed" /\ e.currentStep = 1
    /\ Len(e.results) = 1
    /\ HandlerAt(e, "ok") # {}

\* every string leaf of the template that is one token has, in its place
\* in the value handed to the action, the value at the token's path
RECURSIVE TokenLeavesResolved(_, _, _)
TokenLeavesResolved(template, value, execution) ==
  CASE template.t = "string" ->
         IsToken(template.s) =>
           value = getValueByPath(execution, slice(template.s))
    [] template.t = "object" ->
         /\ value.t = "object"
         /\ \A key \in DOMAIN template.f :
              template.f[key].t # "undefined" =>
                /\ key \in DOMAIN value.f
                /\ TokenLeavesResolved(template.f[key], value.f[key], execution)
    [] template.t = "array" ->
         /\ value.t = "array" /\ Len(value.f) = Len(template.f)
         /\ \A k \in 1..Len(template.f) :
              TokenLeavesResolved(template.f[k], value.f[k], execution)
    [] OTHER -> TRUE

\* C33: parameter resolution replaces every {{path}} string leaf of the
\* step's template by the value at the path, at any depth and inside
\* arrays, and also when the template is itself one token string: the
\* action then receives the value at the path, not the token's text.
C33_EveryTokenLeafReplaced ==
  prepared.pc = "dispatched" =>
    TokenLeavesResolved(prepared.given, prepared.arg, prepared.execution)

\* C33 for the templates that are objects or arrays (this part holds)
TokenLeavesOfContainersReplaced ==
  (prepared.pc = "dispatched" /\ prepared.given.t \in {"object", "array"}) =>
    TokenLeavesResolved(prepared.given, prepared.arg, prepared.execution)

DefinitionsChangedByRegisterOnly ==
  [][registrations' = registrations => workflows' = workflows]_vars

Writers ==
  {n \in DOMAIN calls' :
     /\ config.cache
     /\ calls'[n].pc = "returned" /\ calls'[n].source = "evaluated"
     /\ (n \in DOMAIN calls => calls[n].pc # "returned")}

\* C34: concurrent findMatches calls for one entity that both miss and run
\* their strategies, interleaved at every await, each return the complete
\* filtered list of the matches their own strategies found, every
\* configured strategy having been invoked; the call that returns writes
\* the cache entry of its hash (its list, the time of the write), replacing
\* whatever an earlier call wrote, so the cache holds one entry for the
\* hash, that of the call that wrote last; entries of other hashes are
\* left as they are, and nothing else changes the cache.
C34_LastWriteWins ==
  [][/\ \A n \in Writers :
          LET c == calls'[n]
              h == generateHash(c.entity)
          IN /\ c.result = Filtered(c)
             /\ Names(Ops(c, "strategy")) = config.strategies
             /\ Ops(c, "logger.error") = <<>> =>
                  Len(Ops(c, "push")) = Len(config.strategies)
             /\ h \in DOMAIN cache'
             /\ cache'[h].matches = c.result
             /\ cache'[h].timestamp = clock
             /\ cache'[h].by = n
             /\ \A g \in DOMAIN cache' \ {h} :
                  g \in DOMAIN cache /\ cache'[g] = cache[g]
             /\ DOMAIN cache \subseteq DOMAIN cache'
     /\ Writers = {} => cache' = cache
    ]_vars

\* two calls for one entity ran their strategies at the same time and
\* returned different lists; the first to start wrote last, and the cache
\* holds its list
C34_Witness ==
  /\ Len(calls) = 2
  /\ calls[1].entity = calls[2].entity
  /\ calls[1] \in Evaluated /\ calls[2] \in Evaluated
  /\ 1 \notin calls[2].after
  /\ calls[1].result # calls[2].result
  /\ DOMAIN cache = {generateHash(calls[1].entity)}
  /\ cache[generateHash(calls[1].entity)].by = 1
  /\ cache[generateHash(calls[1].entity)].matches = calls[1].result

\* the collaborator calls of an Execution that are running
InFlightCalls(e) == (IF e.pc = "inflight" THEN 1 ELSE 0) + e.abandoned

\* C36: a step timeout is a forced abort: an Execution has at most one
\* collaborator call in flight at any time (the call of an attempt whose
\* timeout fired is not running when the next attempt, the next step or
\* the error handler is dispatched), and none once execute() has returned
\* or raised.
C36_TimeoutAbortsCall ==
  \A e \in Execs :
    /\ InFlightCalls(e) <= 1
    /\ e.pc \in {"returned", "raised"} => e.abandoned = 0

\* execute() has handed the Execution, or the error, back to its caller
Handed(id) == id \in DOMAIN executions /\ executions[id].pc \in {"returned", "raised"}

\* C37: every execute() call on a registered workflow eventually returns
\* the Execution or raises, also when no collaborator call, the error
\* handler's included, ever resolves, provided the timers fire.
C37_ExecuteTerminates ==
  \A id \in 1..MaxTimerExec : (id \in DOMAIN executions) ~> Handed(id)

\* an Execution none of whose collaborator calls settled: every attempt of
\* its step and of its error handler timed out, and execute() raised
C37_Witness ==
  \E e \in Execs :
    /\ e.pc = "raised" /\ At(e, "ok") = {}
    /\ \A p \in At(e, "fail") : e.log[p].v = StepTimeoutError
    /\ Cardinality(HandlerAt(e, "fail")) = DefaultMaxAttempts
    /\ e.abandoned = Cardinality(At(e, "fail"))

\* C31, its safety half: an Execution is in the active-execution set from
\* its creation until it is terminal (it is not removed while it runs) and
\* through the retention period after that, i.e. until its own retention
\* timer fires.
C31_HeldUntilRetentionEnds ==
  \A o \in DOMAIN executions :
    (executions[o].pc \notin {"returned", "raised"} \/ executions[o].cleanupTimer)
      => o \in activeExecutions

\* C31, its liveness half (it holds where the timers fire): every
\* Execution becomes terminal and is discarded afterwards
EventuallyDiscarded ==
  \A id \in 1..MaxTimerExec :
    (id \in DOMAIN executions) ~>
      (Handed(id) /\ ~executions[id].cleanupTimer /\ id \notin activeExecutions)

\* two consecutive releases are at least the interval apart under which
\* the later one was made
Spaced ==
  \A k \in 1..(Len(releases) - 1) :
    releases[k + 1].at - releases[k].at >= releases[k + 1].interval

\* C39: the limiter releases waiters in the order of their wait() calls,
\* runs at most one processQueue loop at a time, and keeps two
\* consecutive releases at least interval ms apart, whatever wait(),
\* reset() and setRate() calls come between the loop's sleeps.
C39_FifoOneLoopSpaced ==
  /\ \A j, k \in DOMAIN releases :
       j < k => releases[j].waiter < releases[k].waiter
  /\ Cardinality(Sleeping) <= 1
  /\ Spaced

\* C39 without its spacing and single-loop parts (this part holds): the
\* waiters are released in the order of their calls, each at most once
ReleasedInCallOrder ==
  \A j, k \in DOMAIN releases :
    j < k => releases[j].waiter < releases[k].waiter

\* C40: every wait() call eventually resolves, provided timers fire.
C40_EveryWaitResolves ==
  \A w \in 1..MaxWaits :
    (w \in DOMAIN waits) ~> (w \in DOMAIN waits /\ waits[w] = "resolved")

\* C40 as a state property: a waiter that is pending has its resolver in
\* the queue, where the loop will find it
PendingIsQueued ==
  \A w \in DOMAIN waits :
    waits[w] = "pending" => \E k \in DOMAIN limiter.queue : limiter.queue[k] = w

====
